---- MODULE Spec2Model ----
(***************************************************************************)
(* Change-risk / coverage-gap heuristic engine of @claude-flow/cli:        *)
(*   ruvector/diff-classifier.ts  (file risk, overall risk, classifier)    *)
(*   ruvector/coverage-router.ts  (coverage gaps, priorities)              *)
(*                                                                         *)
(* The engine is a set of pure functions.  Each action below is one call   *)
(* of an exported function: it draws the arguments from a bounded set and  *)
(* stores the arguments and the returned value.  `pc` names the call that  *)
(* produced the values currently held.                                     *)
(*                                                                         *)
(* Numbers: line counts and scores are integers.  Quotients (confidence,   *)
(* coverage percentages, mean coverage, priority) are exact rationals      *)
(* [num, den],                                                             *)
(* den > 0, compared by cross-multiplication.  IEEE division is correctly  *)
(* rounded, so equal rationals are equal doubles and the order of distinct *)
(* small rationals is the order of their doubles.                          *)
(***************************************************************************)
EXTENDS Integers, Sequences, FiniteSets, TLC

VARIABLES
    pc,              \* the call whose arguments and result are held
    file,            \* assessFileRisk: argument (DiffFile)
    fileRisk,        \* assessFileRisk: result (FileRisk)
    files,           \* classifyDiff / assessOverallRisk: argument (DiffFile[])
    fileRisks,       \* files.map(assessFileRisk)
    classification,  \* classifyDiff: result, with the category counters
    risk,            \* assessOverallRisk: result (DiffRiskAssessment)
    coverageData,    \* analyzeCoverageGaps: argument (CoverageData[])
    threshold,       \* analyzeCoverageGaps: argument
    disk,            \* the files calculateComplexity reads, by path
    gaps,            \* analyzeCoverageGaps: result (CoverageGap[])
    content,         \* parseLcov / parseIstanbulJson: argument (report content)
    parsed,          \* parseLcov / parseIstanbulJson: result (CoverageData[])
    project,         \* the coverage report files under projectRoot
    task,            \* coverageRoute: argument
    loaded,          \* loadCoverageData: result or thrown error
    route,           \* coverageRoute: result or thrown error
    ruvectorAvailable, \* the module-level cache of checkRuvectorAvailable
    options,         \* coverageRoute / coverageGaps: the options of the call
    probe,           \* the ruvector probes of the process and the calls awaiting one
    git,             \* the outcome of each git query of analyzeDiff
    analysis         \* analyzeDiff / getGitDiffNumstat: result or thrown error

parseVars == <<content, parsed>>
routeVars == <<project, task, loaded, route, ruvectorAvailable, options, probe>>
gitVars == <<git, analysis>>

vars == <<pc, file, fileRisk, files, fileRisks, classification, risk,
          coverageData, threshold, disk, gaps, parseVars, routeVars, gitVars>>

-----------------------------------------------------------------------------
(* Integers and exact rationals                                            *)

Min(a, b) == IF a <= b THEN a ELSE b
Max(a, b) == IF a >= b THEN a ELSE b

Rat(n, d) == [num |-> n, den |-> d]
RatOfInt(n) == Rat(n, 1)
RatAdd(a, b) == Rat(a.num * b.den + b.num * a.den, a.den * b.den)
RatLt(a, b) == a.num * b.den < b.num * a.den
RatLe(a, b) == a.num * b.den <= b.num * a.den
RatEq(a, b) == a.num * b.den = b.num * a.den
RatMin(a, b) == IF RatLe(a, b) THEN a ELSE b

\* Math.round on a non-negative quotient n/d: the nearest integer, halves up
MathRound(n, d) == (2 * n + d) \div (2 * d)

-----------------------------------------------------------------------------
(* Strings and the regular expressions of the source.  Every regular       *)
(* expression used by the modelled code is an alternation of literals, of  *)
(* literals anchored at the end ($), and of a literal followed by a digit  *)
(* (api\/v\d); `i` is the case-insensitive flag.                           *)

\* the file paths of the bounded inputs
Paths == {
    "README.md", "src/auth/login.ts", "src/__tests__/auth.ts", "src/app.test.ts",
    "api/v2/types.ts", "styles/main.css", "package.json", "Dockerfile",
    "src/index.js", "sql/acl/key/hash.env", "docs/ci/todo.snap", "lib/core.py",
    ".github/ci.yml" }

\* the file paths of the bounded coverage records
CovPaths == {
    "src/services/auth.service.ts", "src/utils/helpers.js", "src/api/routes.ts",
    "src/a.ts", "src/app.test.ts", "src/auth/utils/session.py" }

UpperChars == "ABCDEFGHIJKLMNOPQRSTUVWXYZ"
LowerChars == "abcdefghijklmnopqrstuvwxyz"
Digits == {"0", "1", "2", "3", "4", "5", "6", "7", "8", "9"}

\* upper-case letter -> lower-case letter
LowerOf ==
    [c \in {SubSeq(UpperChars, i, i) : i \in 1..Len(UpperChars)} |->
        LET i == CHOOSE j \in 1..Len(UpperChars) : SubSeq(UpperChars, j, j) = c
        IN  SubSeq(LowerChars, i, i)]

toLowerChar(c) == IF c \in DOMAIN LowerOf THEN LowerOf[c] ELSE c

RECURSIVE toLowerFrom(_, _)
toLowerFrom(s, i) ==
    IF i > Len(s) THEN "" ELSE toLowerChar(SubSeq(s, i, i)) \o toLowerFrom(s, i + 1)

\* toLowerCase and the substrings of the input paths, computed once
LowerCased == [s \in Paths |-> toLowerFrom(s, 1)]
Substrings(s) == { SubSeq(s, i, j) : i \in 1..Len(s), j \in 1..Len(s) }
SubstringsOf ==
    [s \in Paths \cup { LowerCased[q] : q \in Paths } \cup CovPaths |-> Substrings(s)]

\* String.prototype.toLowerCase
toLowerCase(s) == IF s \in DOMAIN LowerCased THEN LowerCased[s] ELSE toLowerFrom(s, 1)

\* String.prototype.includes
includes(s, k) ==
    IF s \in DOMAIN SubstringsOf
    THEN k \in SubstringsOf[s]
    ELSE \E i \in 1..(Len(s) - Len(k) + 1) : SubSeq(s, i, i + Len(k) - 1) = k

\* String.prototype.endsWith
endsWith(s, k) ==
    Len(s) >= Len(k) /\ SubSeq(s, Len(s) - Len(k) + 1, Len(s)) = k

\* a literal followed by one digit, anywhere in s
includesThenDigit(s, k) == \E d \in Digits : includes(s, k \o d)

Re(has, ends, digit, i) == [has |-> has, ends |-> ends, digit |-> digit, i |-> i]

\* RegExp.prototype.test
RegexTest(re, s) ==
    LET t == IF re.i THEN toLowerCase(s) ELSE s
    IN  \/ \E k \in re.has : includes(t, k)
        \/ \E k \in re.ends : endsWith(t, k)
        \/ \E k \in re.digit : includesThenDigit(t, k)

-----------------------------------------------------------------------------
(* diff-classifier.ts: risk patterns                                       *)

HIGH_RISK_PATTERNS == <<
    [pattern |-> Re({"auth", "authentication", "login", "password", "secret",
                     "token", "key", "credential"}, {}, {}, TRUE),
     reason  |-> "Security-sensitive code"],
    [pattern |-> Re({"payment", "billing", "checkout", "stripe", "paypal",
                     "transaction"}, {}, {}, TRUE),
     reason  |-> "Payment processing code"],
    [pattern |-> Re({"database", "migration", "schema", "sql", "query"}, {}, {}, TRUE),
     reason  |-> "Database changes"],
    [pattern |-> Re({"security", "permission", "access", "rbac", "acl"}, {}, {}, TRUE),
     reason  |-> "Security/permission changes"],
    [pattern |-> Re({"config", ".env", "environment"}, {}, {}, TRUE),
     reason  |-> "Configuration changes"],
    [pattern |-> Re({"breaking", "deprecat"}, {}, {"api/v"}, TRUE),
     reason  |-> "Potential API breaking changes"],
    [pattern |-> Re({"crypto", "encrypt", "decrypt", "hash"}, {}, {}, TRUE),
     reason  |-> "Cryptography code"] >>

MEDIUM_RISK_PATTERNS == <<
    [pattern |-> Re({"core", "base", "foundation", "lib/"}, {}, {}, TRUE),
     reason  |-> "Core library changes"],
    [pattern |-> Re({"interface", "type", "contract"}, {}, {}, TRUE),
     reason  |-> "Interface/contract changes"],
    [pattern |-> Re({"package.json", "yarn.lock", "package-lock"}, {}, {}, TRUE),
     reason  |-> "Dependency changes"],
    [pattern |-> Re({"ci", "cd", "workflow", "pipeline", ".github"}, {}, {}, TRUE),
     reason  |-> "CI/CD changes"],
    [pattern |-> Re({"docker", "kubernetes", "k8s", "helm"}, {}, {}, TRUE),
     reason  |-> "Infrastructure changes"] >>

SAFE_PATTERNS == <<
    [pattern |-> Re({"readme", "docs/"}, {".md"}, {}, TRUE),
     reason  |-> "Documentation"],
    [pattern |-> Re({".test.", ".spec.", "__tests__"}, {}, {}, TRUE),
     reason  |-> "Test files"],
    [pattern |-> Re({"snapshot"}, {".snap"}, {}, TRUE),
     reason  |-> "Snapshot files"],
    [pattern |-> Re({".styl"}, {".css", ".scss", ".less"}, {}, TRUE),
     reason  |-> "Style files"],
    [pattern |-> Re({"comment", "todo", "fixme"}, {}, {}, TRUE),
     reason  |-> "Comment changes"] >>

-----------------------------------------------------------------------------
(* diff-classifier.ts: assessFileRisk                                      *)

\* variant: the ladder with strict comparisons
RiskLevelOf_Strict(score) ==
    IF score > 70 THEN "critical"
    ELSE IF score > 50 THEN "high-risk"
    ELSE IF score > 25 THEN "medium-risk"
    ELSE "low-risk"

\* the risk level of a score (the same ladder in assessFileRisk and
\* assessOverallRisk)
RiskLevelOf(score) ==
    IF score >= 70 THEN "critical"
    ELSE IF score >= 50 THEN "high-risk"
    ELSE IF score >= 25 THEN "medium-risk"
    ELSE "low-risk"

\* base score from change size
SizeTier(f) ==
    LET totalChanges == f.additions + f.deletions
    IN  IF totalChanges > 500
        THEN [score |-> 30,
              reasons |-> << "Large change (" \o ToString(totalChanges) \o " lines)" >>]
        ELSE IF totalChanges > 200
        THEN [score |-> 20,
              reasons |-> << "Significant change (" \o ToString(totalChanges) \o " lines)" >>]
        ELSE IF totalChanges > 50
        THEN [score |-> 10, reasons |-> << >>]
        ELSE [score |-> 0, reasons |-> << >>]

\* for (const { pattern, reason } of patterns) if (pattern.test(path)) { score += delta; reasons.push(reason) }
RECURSIVE AddMatching(_, _, _, _, _)
AddMatching(patterns, i, path, delta, acc) ==
    IF i > Len(patterns) THEN acc
    ELSE AddMatching(patterns, i + 1, path, delta,
            IF RegexTest(patterns[i].pattern, path)
            THEN [score |-> acc.score + delta,
                  reasons |-> Append(acc.reasons, patterns[i].reason)]
            ELSE acc)

\* for (... of SAFE_PATTERNS) if (pattern.test(path)) { score = Math.max(0, score - 20); ... }
RECURSIVE ReduceSafe(_, _, _)
ReduceSafe(i, path, acc) ==
    IF i > Len(SAFE_PATTERNS) THEN acc
    ELSE ReduceSafe(i + 1, path,
            IF RegexTest(SAFE_PATTERNS[i].pattern, path)
            THEN [score |-> Max(0, acc.score - 20),
                  reasons |-> Append(acc.reasons, SAFE_PATTERNS[i].reason \o " (lower risk)")]
            ELSE acc)

AddDeleted(f, acc) ==
    IF f.status = "deleted"
    THEN [score |-> acc.score + 15, reasons |-> Append(acc.reasons, "File deletion")]
    ELSE acc

AddBinary(f, acc) ==
    IF f.binary
    THEN [score |-> acc.score + 10, reasons |-> Append(acc.reasons, "Binary file")]
    ELSE acc

\* variant: the safe patterns are applied before the medium-risk patterns
assessFileRisk_SafeFirst(f) ==
    LET a1 == SizeTier(f)
        a2 == AddMatching(HIGH_RISK_PATTERNS, 1, f.path, 25, a1)
        a3 == ReduceSafe(1, f.path, a2)
        a4 == AddMatching(MEDIUM_RISK_PATTERNS, 1, f.path, 15, a3)
        a5 == AddDeleted(f, a4)
        a6 == AddBinary(f, a5)
        score == Min(100, a6.score)
    IN  [path |-> f.path, risk |-> RiskLevelOf(score), score |-> score,
         reasons |-> a6.reasons]

assessFileRisk(f) ==
    LET a1 == SizeTier(f)
        a2 == AddMatching(HIGH_RISK_PATTERNS, 1, f.path, 25, a1)
        a3 == AddMatching(MEDIUM_RISK_PATTERNS, 1, f.path, 15, a2)
        a4 == ReduceSafe(1, f.path, a3)
        a5 == AddDeleted(f, a4)
        a6 == AddBinary(f, a5)
        score == Min(100, a6.score)
    IN  [path |-> f.path, risk |-> RiskLevelOf(score), score |-> score,
         reasons |-> a6.reasons]

-----------------------------------------------------------------------------
(* diff-classifier.ts: classifyDiff                                        *)

\* the keys of `categories`, in the order Object.entries enumerates them
CategoryOrder ==
    << "feature", "bugfix", "refactor", "test", "docs", "config", "style",
       "infra", "security" >>

Categories == { CategoryOrder[i] : i \in 1..Len(CategoryOrder) }

RE_CLASSIFY_TEST == Re({".test.", ".spec.", "__tests__"}, {}, {}, FALSE)
RE_CLASSIFY_DOCS == Re({"readme", "docs/"}, {".md"}, {}, FALSE)
RE_CLASSIFY_STYLE == Re({".styl"}, {".css", ".scss", ".less"}, {}, FALSE)
RE_CLASSIFY_CONFIG == Re({"config", ".env", ".yaml", ".yml"}, {".json"}, {}, FALSE)
RE_CLASSIFY_INFRA ==
    Re({"docker", "kubernetes", "k8s", "helm", "ci", "cd", "workflow"}, {}, {}, FALSE)
RE_CLASSIFY_SECURITY == Re({"auth", "security", "permission", "crypto"}, {}, {}, FALSE)

\* variant: the auth/security check comes first
CategoryOfFile_SecurityFirst(f) ==
    LET path == toLowerCase(f.path)
    IN  IF RegexTest(RE_CLASSIFY_SECURITY, path) THEN "security"
        ELSE IF RegexTest(RE_CLASSIFY_TEST, path) THEN "test"
        ELSE IF RegexTest(RE_CLASSIFY_DOCS, path) THEN "docs"
        ELSE IF RegexTest(RE_CLASSIFY_STYLE, path) THEN "style"
        ELSE IF RegexTest(RE_CLASSIFY_CONFIG, path) THEN "config"
        ELSE IF RegexTest(RE_CLASSIFY_INFRA, path) THEN "infra"
        ELSE IF f.deletions > f.additions * 2 THEN "refactor"
        ELSE IF f.status = "added" THEN "feature"
        ELSE "bugfix"

\* the counter one file increments (the if / else-if chain of the loop)
CategoryOfFile(f) ==
    LET path == toLowerCase(f.path)
    IN  IF RegexTest(RE_CLASSIFY_TEST, path) THEN "test"
        ELSE IF RegexTest(RE_CLASSIFY_DOCS, path) THEN "docs"
        ELSE IF RegexTest(RE_CLASSIFY_STYLE, path) THEN "style"
        ELSE IF RegexTest(RE_CLASSIFY_CONFIG, path) THEN "config"
        ELSE IF RegexTest(RE_CLASSIFY_INFRA, path) THEN "infra"
        ELSE IF RegexTest(RE_CLASSIFY_SECURITY, path) THEN "security"
        ELSE IF f.deletions > f.additions * 2 THEN "refactor"
        ELSE IF f.status = "added" THEN "feature"
        ELSE "bugfix"

\* for (const file of files) { ... categories.X++ }
RECURSIVE CountCategories(_, _, _)
CountCategories(fs, i, categories) ==
    IF i > Len(fs) THEN categories
    ELSE LET c == CategoryOfFile(fs[i])
         IN  CountCategories(fs, i + 1, [categories EXCEPT ![c] = @ + 1])

\* variant: a later counter that equals the maximum replaces the earlier one
RECURSIVE FindDominant_LastWins(_, _, _)
FindDominant_LastWins(categories, i, best) ==
    IF i > Len(CategoryOrder) THEN best
    ELSE LET cat == CategoryOrder[i]
             count == categories[cat]
         IN  FindDominant_LastWins(categories, i + 1,
                IF count >= best.maxCount
                THEN [maxCount |-> count, category |-> cat]
                ELSE best)

\* for (const [cat, count] of Object.entries(categories)) if (count > maxCount) ...
RECURSIVE FindDominant(_, _, _)
FindDominant(categories, i, best) ==
    IF i > Len(CategoryOrder) THEN best
    ELSE LET cat == CategoryOrder[i]
             count == categories[cat]
         IN  FindDominant(categories, i + 1,
                IF count > best.maxCount
                THEN [maxCount |-> count, category |-> cat]
                ELSE best)

\* Object.values(categories).reduce((a, b) => a + b, 0)
RECURSIVE SumCategories(_, _)
SumCategories(categories, i) ==
    IF i > Len(CategoryOrder) THEN 0
    ELSE categories[CategoryOrder[i]] + SumCategories(categories, i + 1)

\* variant: no cap at 0.95
Confidence_Uncapped(maxCount, total) ==
    IF total > 0
    THEN RatAdd(Rat(maxCount, total), Rat(2, 10))
    ELSE Rat(5, 10)

\* total > 0 ? Math.min(0.95, (maxCount / total) + 0.2) : 0.5
Confidence(maxCount, total) ==
    IF total > 0
    THEN RatMin(Rat(95, 100), RatAdd(Rat(maxCount, total), Rat(2, 10)))
    ELSE Rat(5, 10)

NoSubcategory == "undefined"

\* `paths` is the lower-cased paths joined by ' '; no literal of these regular
\* expressions holds a space, so a match lies within one path
getSubcategory(category, fs) ==
    LET any(re) == \E i \in 1..Len(fs)  : RegexTest(re, toLowerCase(fs[i].path))
    IN  IF category = "feature" THEN
            IF any(Re({"api"}, {}, {}, FALSE)) THEN "api"
            ELSE IF any(Re({"ui", "component", "page"}, {}, {}, FALSE)) THEN "frontend"
            ELSE IF any(Re({"model", "database"}, {}, {}, FALSE)) THEN "backend"
            ELSE NoSubcategory
        ELSE IF category = "bugfix" THEN
            IF any(Re({"security", "auth"}, {}, {}, FALSE)) THEN "security-fix"
            ELSE IF any(Re({"performance", "perf"}, {}, {}, FALSE)) THEN "performance-fix"
            ELSE NoSubcategory
        ELSE IF category = "infra" THEN
            IF any(Re({"docker"}, {}, {}, FALSE)) THEN "containerization"
            ELSE IF any(Re({"ci", "cd", "workflow"}, {}, {}, FALSE)) THEN "ci-cd"
            ELSE IF any(Re({"kubernetes", "k8s"}, {}, {}, FALSE)) THEN "kubernetes"
            ELSE NoSubcategory
        ELSE NoSubcategory

\* the result, with the counters it was derived from (the free-text
\* `reasoning` is not modelled)
classifyDiff(fs) ==
    LET categories == CountCategories(fs, 1, [c \in Categories |-> 0])
        best == FindDominant(categories, 1, [maxCount |-> 0, category |-> "feature"])
        total == SumCategories(categories, 1)
    IN  [category |-> best.category,
         subcategory |-> getSubcategory(best.category, fs),
         confidence |-> Confidence(best.maxCount, total),
         maxCount |-> best.maxCount,
         categories |-> categories]

-----------------------------------------------------------------------------
(* diff-classifier.ts: assessOverallRisk                                   *)

RE_SECURITY_CONCERN ==
    Re({"auth", "password", "secret", "token", "key", "credential", "crypto"},
       {}, {}, TRUE)
RE_BREAKING_CHANGE == Re({"breaking", "deprecat", "interface", "type"}, {}, {"api/v"}, TRUE)
RE_TEST_FILE == Re({".test.", ".spec.", "__tests__"}, {}, {}, TRUE)
RE_SOURCE_EXT == Re({}, {".ts", ".tsx", ".js", ".jsx", ".py", ".go", ".rs"}, {}, FALSE)
RE_NOT_SOURCE == Re({".test.", ".spec."}, {}, {}, TRUE)

RECURSIVE SumScores(_, _)
SumScores(frs, i) == IF i > Len(frs) THEN 0 ELSE frs[i].score + SumScores(frs, i + 1)

RECURSIVE SumChanges(_, _)
SumChanges(fs, i) ==
    IF i > Len(fs) THEN 0 ELSE fs[i].additions + fs[i].deletions + SumChanges(fs, i + 1)

IsSecurityConcern(f) == RegexTest(RE_SECURITY_CONCERN, f.path)
IsBreakingChange(f) == RegexTest(RE_BREAKING_CHANGE, f.path) /\ f.deletions > f.additions
IsTestFile(f) == RegexTest(RE_TEST_FILE, f.path)
IsSourceFile(f) == RegexTest(RE_SOURCE_EXT, f.path) /\ ~RegexTest(RE_NOT_SOURCE, f.path)

\* testFiles.length >= sourceFiles.length * 0.5
TestCoverageTag(nTest, nSource) ==
    IF nSource > 0
    THEN (IF 2 * nTest >= nSource THEN "adequate" ELSE "insufficient")
    ELSE "unknown"

FileCountBonus(n) == IF n > 20 THEN 15 ELSE IF n > 10 THEN 10 ELSE IF n > 5 THEN 5 ELSE 0

OverallLevelOf(score) ==
    IF score >= 70 THEN "critical"
    ELSE IF score >= 50 THEN "high-risk"
    ELSE IF score >= 25 THEN "medium-risk"
    ELSE "low-risk"

\* variant: Math.floor in place of Math.round
OverallScore_Floor(sum, n, nFiles, nSecurity, nBreaking) ==
    LET den == IF n > 0 THEN n ELSE 1
        extra == FileCountBonus(nFiles) + nSecurity * 10 + nBreaking * 10
    IN  Min(100, (sum + extra * den) \div den)

\* Math.min(100, Math.round(avgScore + bonus + 10 * concerns + 10 * breaking)),
\* avgScore = sum / n (0 for no file risks)
OverallScore(sum, n, nFiles, nSecurity, nBreaking) ==
    LET den == IF n > 0 THEN n ELSE 1
        extra == FileCountBonus(nFiles) + nSecurity * 10 + nBreaking * 10
    IN  Min(100, MathRound(sum + extra * den, den))

assessOverallRisk(fs, frs) ==
    LET highRisk == SelectSeq(frs, LAMBDA r : r.risk = "high-risk" \/ r.risk = "critical")
        securityConcerns == SelectSeq(fs, IsSecurityConcern)
        breakingChanges == SelectSeq(fs, IsBreakingChange)
        testFiles == SelectSeq(fs, IsTestFile)
        sourceFiles == SelectSeq(fs, IsSourceFile)
        score == OverallScore(SumScores(frs, 1), Len(frs), Len(fs),
                              Len(securityConcerns), Len(breakingChanges))
    IN  [overall |-> OverallLevelOf(score),
         score |-> score,
         breakdown |->
            [fileCount |-> Len(fs),
             totalChanges |-> SumChanges(fs, 1),
             highRiskFiles |-> [i \in 1..Len(highRisk) |-> highRisk[i].path],
             securityConcerns |->
                [i \in 1..Len(securityConcerns) |->
                    "Security-sensitive file: " \o securityConcerns[i].path],
             breakingChanges |->
                [i \in 1..Len(breakingChanges) |->
                    "Potential breaking change: " \o breakingChanges[i].path],
             testCoverage |-> TestCoverageTag(Len(testFiles), Len(sourceFiles))]]

-----------------------------------------------------------------------------
(* coverage-router.ts: coverage gap analysis                               *)

\* index of the last occurrence of the character c in s, 0 if none
LastIndexOf(s, c) ==
    LET at == { i \in 1..Len(s) : SubSeq(s, i, i) = c }
    IN  IF at = {} THEN 0 ELSE CHOOSE i \in at : \A j \in at : j <= i

\* path.basename and path.extname (POSIX, no trailing separator)
basename(p) == SubSeq(p, LastIndexOf(p, "/") + 1, Len(p))
extname(p) ==
    LET b == basename(p)
        i == LastIndexOf(b, ".")
    IN  IF i <= 1 THEN "" ELSE SubSeq(b, i, Len(b))

\* what calculateComplexity finds at resolve(projectRoot, filePath): whether
\* the file exists and can be read, its number of lines, and the numbers of
\* matches of the control-flow and of the declaration regular expression
FileStat(exists, readable, lineCount, controlFlow, declarations) ==
    [exists |-> exists, readable |-> readable, lineCount |-> lineCount,
     controlFlow |-> controlFlow, declarations |-> declarations]

calculateComplexity(filePath, fs) ==
    LET st == fs[filePath]
        tier == IF st.lineCount > 500 THEN 3
                ELSE IF st.lineCount > 200 THEN 2
                ELSE IF st.lineCount > 100 THEN 1 ELSE 0
    IN  IF ~st.exists THEN 1
        ELSE IF ~st.readable THEN 1
        ELSE Min(10, 1 + tier + Min(5, st.controlFlow \div 10)
                              + Min(3, st.declarations \div 5))

determineGapType(coverage) ==
    IF RatLt(coverage, RatOfInt(20)) THEN "critical"
    ELSE IF RatLt(coverage, RatOfInt(50)) THEN "high"
    ELSE IF RatLt(coverage, RatOfInt(70)) THEN "medium"
    ELSE "low"

extAgentMap(ext) ==
    CASE ext = ".ts" -> <<"coder", "tester", "reviewer">>
      [] ext = ".tsx" -> <<"coder", "tester", "reviewer">>
      [] ext = ".js" -> <<"coder", "tester">>
      [] ext = ".jsx" -> <<"coder", "tester">>
      [] ext = ".py" -> <<"coder", "tester", "ml-developer">>
      [] ext = ".go" -> <<"coder", "tester">>
      [] ext = ".rs" -> <<"coder", "tester", "performance-engineer">>
      [] OTHER -> <<"coder", "tester">>

\* Array.prototype.includes
Has(seq, x) == \E i \in 1..Len(seq) : seq[i] = x

\* Array.from(new Set(seq)): the first occurrence of every element, in order
Dedupe(seq) == SelectSeq([i \in 1..Len(seq) |-> [v |-> seq[i], i |-> i]],
                         LAMBDA e : \A j \in 1..(e.i - 1) : seq[j] # e.v)

\* Array.prototype.slice(0, n)
Take(seq, n) == SubSeq(seq, 1, Min(n, Len(seq)))

\* variant: the list is not cut to four entries
suggestAgentsForFile_Uncapped(filePath, data, gapType) ==
    LET ext == toLowerCase(extname(filePath))
        fileName == toLowerCase(basename(filePath))
        base == IF includes(filePath, "/api/") \/ includes(filePath, "/routes/")
                THEN <<"coder", "tester", "security-architect">>
                ELSE IF includes(filePath, "/auth/") \/ includes(filePath, "security")
                THEN <<"security-architect", "tester", "coder">>
                ELSE IF includes(filePath, "/utils/") \/ includes(filePath, "/helpers/")
                THEN <<"coder", "tester">>
                ELSE IF includes(filePath, "/services/")
                THEN <<"coder", "tester", "architect">>
                ELSE extAgentMap(ext)
        withReviewer == IF gapType = "critical" /\ ~Has(base, "reviewer")
                        THEN Append(base, "reviewer") ELSE base
        agents == IF Len(data.uncoveredBranches) > 5 /\ ~Has(withReviewer, "architect")
                  THEN Append(withReviewer, "architect") ELSE withReviewer
        unique == Dedupe(agents)
    IN  IF includes(fileName, ".test.") \/ includes(fileName, ".spec.")
        THEN <<"tester", "reviewer">>
        ELSE [i \in 1..Len(unique) |-> unique[i].v]

\* variant: architect is appended before reviewer
suggestAgentsForFile_ArchitectFirst(filePath, data, gapType) ==
    LET ext == toLowerCase(extname(filePath))
        fileName == toLowerCase(basename(filePath))
        base == IF includes(filePath, "/api/") \/ includes(filePath, "/routes/")
                THEN <<"coder", "tester", "security-architect">>
                ELSE IF includes(filePath, "/auth/") \/ includes(filePath, "security")
                THEN <<"security-architect", "tester", "coder">>
                ELSE IF includes(filePath, "/utils/") \/ includes(filePath, "/helpers/")
                THEN <<"coder", "tester">>
                ELSE IF includes(filePath, "/services/")
                THEN <<"coder", "tester", "architect">>
                ELSE extAgentMap(ext)
        withArchitect == IF Len(data.uncoveredBranches) > 5 /\ ~Has(base, "architect")
                         THEN Append(base, "architect") ELSE base
        agents == IF gapType = "critical" /\ ~Has(withArchitect, "reviewer")
                  THEN Append(withArchitect, "reviewer") ELSE withArchitect
        unique == Dedupe(agents)
    IN  IF includes(fileName, ".test.") \/ includes(fileName, ".spec.")
        THEN <<"tester", "reviewer">>
        ELSE Take([i \in 1..Len(unique) |-> unique[i].v], 4)

suggestAgentsForFile(filePath, data, gapType) ==
    LET ext == toLowerCase(extname(filePath))
        fileName == toLowerCase(basename(filePath))
        base == IF includes(filePath, "/api/") \/ includes(filePath, "/routes/")
                THEN <<"coder", "tester", "security-architect">>
                ELSE IF includes(filePath, "/auth/") \/ includes(filePath, "security")
                THEN <<"security-architect", "tester", "coder">>
                ELSE IF includes(filePath, "/utils/") \/ includes(filePath, "/helpers/")
                THEN <<"coder", "tester">>
                ELSE IF includes(filePath, "/services/")
                THEN <<"coder", "tester", "architect">>
                ELSE extAgentMap(ext)
        withReviewer == IF gapType = "critical" /\ ~Has(base, "reviewer")
                        THEN Append(base, "reviewer") ELSE base
        agents == IF Len(data.uncoveredBranches) > 5 /\ ~Has(withReviewer, "architect")
                  THEN Append(withReviewer, "architect") ELSE withReviewer
        unique == Dedupe(agents)
    IN  IF includes(fileName, ".test.") \/ includes(fileName, ".spec.")
        THEN <<"tester", "reviewer">>
        ELSE Take([i \in 1..Len(unique) |-> unique[i].v], 4)

\* variant: a medium gap has the base priority of a high one
gapPriority_MediumAsHigh(gapType) ==
    CASE gapType = "critical" -> 100
      [] gapType = "high" -> 75
      [] gapType = "medium" -> 75
      [] gapType = "low" -> 25

gapPriority(gapType) ==
    CASE gapType = "critical" -> 100
      [] gapType = "high" -> 75
      [] gapType = "medium" -> 50
      [] gapType = "low" -> 25

\* the priority, an exact rational over max(1, totalLines)
calculatePriority(data, complexity, gapType) ==
    LET den == Max(1, data.totalLines)
        \* Math.min(20, uncoveredRatio * 50)
        lines == RatMin(RatOfInt(20), Rat(50 * Len(data.uncoveredLines), den))
        branch == IF RatLt(data.branchCoverage, RatOfInt(50)) THEN 15
                  ELSE IF RatLt(data.branchCoverage, RatOfInt(75)) THEN 8 ELSE 0
        fileName == basename(data.filePath)
        boost == (IF includes(fileName, "service") \/ includes(fileName, "controller")
                  THEN 10 ELSE 0)
                 + (IF includes(fileName, "auth") \/ includes(fileName, "security")
                    THEN 15 ELSE 0)
        priority == RatAdd(RatOfInt(gapPriority(gapType) + complexity * 3 + branch + boost),
                           lines)
    IN  RatMin(RatOfInt(200), priority)

\* (line + branch + function + statement) / 4
AverageCoverage(data) ==
    LET sum == RatAdd(RatAdd(data.lineCoverage, data.branchCoverage),
                      RatAdd(data.functionCoverage, data.statementCoverage))
    IN  Rat(sum.num, sum.den * 4)

\* the gap pushed for one record (the free-text `reason` is not modelled)
GapOf(data, fs) ==
    LET avgCoverage == AverageCoverage(data)
        gapType == determineGapType(avgCoverage)
        complexity == calculateComplexity(data.filePath, fs)
    IN  [filePath |-> data.filePath,
         coveragePercent |-> avgCoverage,
         gapType |-> gapType,
         complexity |-> complexity,
         priority |-> calculatePriority(data, complexity, gapType),
         suggestedAgents |-> suggestAgentsForFile(data.filePath, data, gapType),
         uncoveredLines |-> Take(data.uncoveredLines, 20)]

\* variant: a record whose mean equals the threshold is kept
BelowThreshold_Inclusive(data, thr) == RatLe(AverageCoverage(data), RatOfInt(thr))

\* if (avgCoverage >= threshold) continue
BelowThreshold(data, thr) == ~RatLe(RatOfInt(thr), AverageCoverage(data))

\* for (const data of coverageData) { ...; gaps.push(...) }
RECURSIVE CollectGaps(_, _, _, _)
CollectGaps(cov, i, fs, thr) ==
    IF i > Len(cov) THEN << >>
    ELSE IF BelowThreshold(cov[i], thr)
    THEN << GapOf(cov[i], fs) >> \o CollectGaps(cov, i + 1, fs, thr)
    ELSE CollectGaps(cov, i + 1, fs, thr)

\* variant: the comparator also orders equal priorities
ComesAfter_OrEqual(a, b) == RatLe(a.priority, b.priority)

\* the comparator (a, b) => b.priority - a.priority is positive
ComesAfter(a, b) == RatLt(a.priority, b.priority)

\* Array.prototype.sort (stable): g goes before the first element that the
\* comparator orders after it
RECURSIVE InsertSorted(_, _)
InsertSorted(sorted, g) ==
    IF sorted = << >> THEN << g >>
    ELSE IF ComesAfter(Head(sorted), g) THEN << g >> \o sorted
    ELSE << Head(sorted) >> \o InsertSorted(Tail(sorted), g)

\* variant: the list is returned in the order of the records
SortGaps_Unsorted(unsorted, n) == unsorted

RECURSIVE SortGaps(_, _)
SortGaps(unsorted, n) ==
    IF n = 0 THEN << >> ELSE InsertSorted(SortGaps(unsorted, n - 1), unsorted[n])

analyzeCoverageGaps(cov, fs, thr) ==
    LET found == CollectGaps(cov, 1, fs, thr)
    IN  SortGaps(found, Len(found))

-----------------------------------------------------------------------------
(* coverage-router.ts: coverage report parsing                             *)
(*                                                                         *)
(* An LCOV report is held after lcovContent.split('end_of_record'): a      *)
(* sequence of records, each the sequence of its trimmed non-empty lines,  *)
(* each line split into its prefix (`tag`) and its comma-separated fields. *)
(* An Istanbul report is held as what JSON.parse makes of it: a syntax     *)
(* error, the value null, or an object given as the sequence of its        *)
(* entries in Object.entries order.                                        *)

\* hit / found * 100 of a metric, 100 when nothing was found
Percent(hit, found) == IF found > 0 THEN Rat(hit * 100, found) ELSE RatOfInt(100)

\* one line of an LCOV record: `text` is the path of SF, the function name of
\* FNDA and the hit field of BRDA when that is '-'; `num` is the line number
\* of DA and BRDA and the count of LF and LH; `hits` is the hit count
LcovLine(tag, text, num, hits) == [tag |-> tag, text |-> text, num |-> num, hits |-> hits]

\* the last LF / LH count of the record, 0 when there is none
LastCount(lines, tag) ==
    LET at == SelectSeq(lines, LAMBDA l : l.tag = tag)
    IN  IF at = << >> THEN 0 ELSE at[Len(at)].num

\* parts[3] === '-' ? 0 : parseInt(parts[3], 10)
BranchHits(l) == IF l.text = "-" THEN 0 ELSE l.hits

\* the CoverageData of one record that has an SF line
parseLcovRecord(lines) ==
    LET sfLine == SelectSeq(lines, LAMBDA l : l.tag = "SF")[1]
        da == SelectSeq(lines, LAMBDA l : l.tag = "DA")
        brda == SelectSeq(lines, LAMBDA l : l.tag = "BRDA")
        fnda == SelectSeq(lines, LAMBDA l : l.tag = "FNDA")
        daMissed == SelectSeq(da, LAMBDA l : ~(l.hits > 0))
        brdaMissed == SelectSeq(brda, LAMBDA l : ~(BranchHits(l) > 0))
        fndaMissed == SelectSeq(fnda, LAMBDA l : ~(l.hits > 0))
        lineCoverage == Percent(Len(da) - Len(daMissed), Len(da))
    IN  [filePath |-> sfLine.text,
         lineCoverage |-> lineCoverage,
         branchCoverage |-> Percent(Len(brda) - Len(brdaMissed), Len(brda)),
         functionCoverage |-> Percent(Len(fnda) - Len(fndaMissed), Len(fnda)),
         statementCoverage |-> lineCoverage,
         uncoveredLines |-> [i \in 1..Len(daMissed) |-> daMissed[i].num],
         uncoveredBranches |->
            [i \in 1..Len(brdaMissed) |-> [line |-> brdaMissed[i].num, type |-> "unknown"]],
         uncoveredFunctions |-> [i \in 1..Len(fndaMissed) |-> fndaMissed[i].text],
         totalLines |-> LastCount(lines, "LF"),
         coveredLines |-> LastCount(lines, "LH")]

\* for (const record of records) { if blank or without SF: continue; ... files.push(data) }
RECURSIVE parseLcovFrom(_, _)
parseLcovFrom(records, i) ==
    IF i > Len(records) THEN << >>
    ELSE IF SelectSeq(records[i], LAMBDA l : l.tag = "SF") = << >>
    THEN parseLcovFrom(records, i + 1)
    ELSE << parseLcovRecord(records[i]) >> \o parseLcovFrom(records, i + 1)

parseLcov(lcovContent) == parseLcovFrom(lcovContent, 1)

\* One entry [filePath, fileData] of an Istanbul report.  `isObject` is FALSE
\* when fileData is null; `has` names the properties fileData holds; the
\* other fields are the values of these properties (unused when absent):
\*   lines           [total, covered, pct, pctIsNumber]
\*   statements, branches, functions   the pct of the summary block
\*   s, f            sequences of [id, hits] in Object.entries order
\*   b               sequence of [id, iterable, hits], hits a sequence
\*   statementMap    id -> start line;  fnMap  id -> name
\*   branchMap       id -> [line, type], type "" when the map gives none
IsSummaryEntry(e) == "lines" \in e.has /\ e.lines.pctIsNumber

\* the entry makes the loop body throw: a property of null is read, or the
\* hits of a branch cannot be iterated
EntryThrows(e) ==
    \/ ~e.isObject
    \/ /\ ~IsSummaryEntry(e)
       /\ {"b", "branchMap"} \subseteq e.has
       /\ \E i \in 1..Len(e.b) : ~e.b[i].iterable

\* fileData.path || filePath
EntryPath(e) == IF "path" \in e.has /\ e.path # "" THEN e.path ELSE e.key

\* the summary format
parseSummaryEntry(e) ==
    [filePath |-> EntryPath(e),
     lineCoverage |-> e.lines.pct,
     branchCoverage |-> IF "branches" \in e.has THEN e.branches ELSE RatOfInt(100),
     functionCoverage |-> IF "functions" \in e.has THEN e.functions ELSE RatOfInt(100),
     statementCoverage |-> IF "statements" \in e.has THEN e.statements ELSE e.lines.pct,
     uncoveredLines |-> << >>,
     uncoveredBranches |-> << >>,
     uncoveredFunctions |-> << >>,
     totalLines |-> e.lines.total,
     coveredLines |-> e.lines.covered]

\* Array.from(new Set(lines)).sort((a, b) => a - b)
RECURSIVE SortedSet(_)
SortedSet(S) ==
    IF S = {} THEN << >>
    ELSE LET least == CHOOSE x \in S : \A y \in S : x <= y
         IN  << least >> \o SortedSet(S \ {least})

\* the hit counts of all branches, each with the id of its branch
RECURSIVE FlattenBranches(_, _)
FlattenBranches(b, i) ==
    IF i > Len(b) THEN << >>
    ELSE [k \in 1..Len(b[i].hits) |-> [id |-> b[i].id, hits |-> b[i].hits[k]]]
         \o FlattenBranches(b, i + 1)

\* the detailed format
parseDetailedEntry(e) ==
    LET hasS == {"s", "statementMap"} \subseteq e.has
        hasB == {"b", "branchMap"} \subseteq e.has
        hasF == {"f", "fnMap"} \subseteq e.has
        sMissed == SelectSeq(e.s, LAMBDA x : ~(x.hits > 0))
        \* if (stmtInfo?.start?.line) data.uncoveredLines.push(...)
        sLines == { e.statementMap[sMissed[i].id] :
                      i \in { k \in 1..Len(sMissed) :
                                /\ sMissed[k].id \in DOMAIN e.statementMap
                                /\ e.statementMap[sMissed[k].id] # 0 } }
        statementCoverage == Percent(Len(e.s) - Len(sMissed), Len(e.s))
        bAll == FlattenBranches(e.b, 1)
        bMissed == SelectSeq(bAll, LAMBDA x : ~(x.hits > 0))
        bKnown == SelectSeq(bMissed, LAMBDA x : x.id \in DOMAIN e.branchMap)
        fMissed == SelectSeq(e.f, LAMBDA x : ~(x.hits > 0))
        fNamed == SelectSeq(fMissed, LAMBDA x : /\ x.id \in DOMAIN e.fnMap
                                                /\ e.fnMap[x.id] # "")
    IN  [filePath |-> EntryPath(e),
         lineCoverage |-> IF hasS THEN statementCoverage ELSE RatOfInt(0),
         branchCoverage |->
            IF hasB THEN Percent(Len(bAll) - Len(bMissed), Len(bAll)) ELSE RatOfInt(0),
         functionCoverage |->
            IF hasF THEN Percent(Len(e.f) - Len(fMissed), Len(e.f)) ELSE RatOfInt(0),
         statementCoverage |-> IF hasS THEN statementCoverage ELSE RatOfInt(0),
         uncoveredLines |-> IF hasS THEN SortedSet(sLines) ELSE << >>,
         uncoveredBranches |->
            IF hasB
            THEN [i \in 1..Len(bKnown) |->
                    LET info == e.branchMap[bKnown[i].id]
                    IN  [line |-> info.line,
                         type |-> IF info.type # "" THEN info.type ELSE "unknown"]]
            ELSE << >>,
         uncoveredFunctions |->
            IF hasF THEN [i \in 1..Len(fNamed) |-> e.fnMap[fNamed[i].id]] ELSE << >>,
         totalLines |-> IF hasS THEN Len(e.s) ELSE 0,
         coveredLines |-> IF hasS THEN Len(e.s) - Len(sMissed) ELSE 0]

parseIstanbulEntry(e) ==
    IF IsSummaryEntry(e) THEN parseSummaryEntry(e) ELSE parseDetailedEntry(e)

\* the loop over Object.entries(coverage) inside try { } catch { }: an entry
\* that throws ends the loop, and `files` is returned as it then stands
RECURSIVE parseIstanbulFrom(_, _, _)
parseIstanbulFrom(entries, i, filesSoFar) ==
    IF i > Len(entries) THEN filesSoFar
    ELSE IF entries[i].key = "total" THEN parseIstanbulFrom(entries, i + 1, filesSoFar)
    ELSE IF EntryThrows(entries[i]) THEN filesSoFar
    ELSE parseIstanbulFrom(entries, i + 1,
                           Append(filesSoFar, parseIstanbulEntry(entries[i])))

\* JSON.parse throws on a syntax error and Object.entries(null) throws: both
\* are caught with `files` still empty
parseIstanbulJson(jsonContent) ==
    IF jsonContent.kind # "object" THEN << >>
    ELSE parseIstanbulFrom(jsonContent.entries, 1, << >>)

-----------------------------------------------------------------------------
(* coverage-router.ts: report discovery and loading                        *)
(*                                                                         *)
(* `root` gives, for each conventional report location below projectRoot,  *)
(* the file found there: whether it exists, whether readFileSync can read  *)
(* it, and what each parser makes of its text.                             *)

\* lcovPaths and summaryPaths, relative to projectRoot, in the order probed
LcovPaths == << "coverage/lcov.info", "lcov.info", "coverage/lcov-report/lcov.info" >>
SummaryPaths == << "coverage/coverage-summary.json", "coverage/coverage-final.json",
                   ".nyc_output/coverage-summary.json" >>

findCoverageReports(root) ==
    LET lcov == SelectSeq(LcovPaths, LAMBDA q : root[q].exists)
        json == SelectSeq(SummaryPaths, LAMBDA q : root[q].exists)
    IN  [i \in 1..Len(lcov) |-> [type |-> "lcov", path |-> lcov[i]]]
        \o [i \in 1..Len(json) |->
              [type |-> IF includes(json[i], ".nyc_output") THEN "istanbul" ELSE "c8",
               path |-> json[i]]]

NoReport == [threw |-> FALSE, data |-> << >>, format |-> "none", reportPath |-> "null"]
\* readFileSync throws: the promise of loadCoverageData is rejected
ReadError == [threw |-> TRUE, data |-> << >>, format |-> "", reportPath |-> ""]

loadCoverageData(root) ==
    LET reports == findCoverageReports(root)
        lcovReports == SelectSeq(reports, LAMBDA r : r.type = "lcov")
        jsonReports == SelectSeq(reports, LAMBDA r : r.type = "istanbul" \/ r.type = "c8")
    IN  IF reports = << >> THEN NoReport
        ELSE IF lcovReports # << >>
        THEN LET lcovReport == lcovReports[1]
             IN  IF ~root[lcovReport.path].readable THEN ReadError
                 ELSE [threw |-> FALSE,
                       data |-> parseLcov(root[lcovReport.path].lcov),
                       format |-> "lcov",
                       reportPath |-> lcovReport.path]
        ELSE IF jsonReports # << >>
        THEN LET jsonReport == jsonReports[1]
             IN  IF ~root[jsonReport.path].readable THEN ReadError
                 ELSE [threw |-> FALSE,
                       data |-> parseIstanbulJson(root[jsonReport.path].json),
                       format |-> jsonReport.type,
                       reportPath |-> jsonReport.path]
        ELSE NoReport

-----------------------------------------------------------------------------
(* coverage-router.ts: generateCoverageSummary, coverageRoute              *)

\* the sum of a sequence of numbers
RECURSIVE SumRat(_, _)
SumRat(seq, i) == IF i > Len(seq) THEN RatOfInt(0) ELSE RatAdd(seq[i], SumRat(seq, i + 1))

\* totals.x / fileCount
MeanOf(seq) == LET sum == SumRat(seq, 1) IN Rat(sum.num, sum.den * Len(seq))

\* variant: a file whose mean equals the threshold counts as below it
generateCoverageSummary_Inclusive(cov, thr) ==
    IF Len(cov) = 0
    THEN [totalFiles |-> 0,
          overallLineCoverage |-> RatOfInt(0),
          overallBranchCoverage |-> RatOfInt(0),
          overallFunctionCoverage |-> RatOfInt(0),
          overallStatementCoverage |-> RatOfInt(0),
          filesBelowThreshold |-> 0,
          coverageThreshold |-> thr]
    ELSE [totalFiles |-> Len(cov),
          overallLineCoverage |-> MeanOf([i \in 1..Len(cov) |-> cov[i].lineCoverage]),
          overallBranchCoverage |-> MeanOf([i \in 1..Len(cov) |-> cov[i].branchCoverage]),
          overallFunctionCoverage |-> MeanOf([i \in 1..Len(cov) |-> cov[i].functionCoverage]),
          overallStatementCoverage |-> MeanOf([i \in 1..Len(cov) |-> cov[i].statementCoverage]),
          filesBelowThreshold |->
            Len(SelectSeq(cov, LAMBDA d : RatLe(AverageCoverage(d), RatOfInt(thr)))),
          coverageThreshold |-> thr]

generateCoverageSummary(cov, thr) ==
    IF Len(cov) = 0
    THEN [totalFiles |-> 0,
          overallLineCoverage |-> RatOfInt(0),
          overallBranchCoverage |-> RatOfInt(0),
          overallFunctionCoverage |-> RatOfInt(0),
          overallStatementCoverage |-> RatOfInt(0),
          filesBelowThreshold |-> 0,
          coverageThreshold |-> thr]
    ELSE [totalFiles |-> Len(cov),
          overallLineCoverage |-> MeanOf([i \in 1..Len(cov) |-> cov[i].lineCoverage]),
          overallBranchCoverage |-> MeanOf([i \in 1..Len(cov) |-> cov[i].branchCoverage]),
          overallFunctionCoverage |-> MeanOf([i \in 1..Len(cov) |-> cov[i].functionCoverage]),
          overallStatementCoverage |-> MeanOf([i \in 1..Len(cov) |-> cov[i].statementCoverage]),
          filesBelowThreshold |->
            Len(SelectSeq(cov, LAMBDA d : RatLt(AverageCoverage(d), RatOfInt(thr)))),
          coverageThreshold |-> thr]

\* checkRuvectorAvailable: the cached answer if there is one, else whether the
\* module can be imported and exports both hooks; the answer is cached.
\* `cache` is "null", "true" or "false"; `module` is "absent" (the import
\* fails), "partial" (a hook is missing) or "full"
checkRuvectorAvailable(cache, module) ==
    IF cache # "null" THEN cache
    ELSE IF module = "full" THEN "true" ELSE "false"

\* the cache after coverageRoute: callRuvectorRoute runs when useRuvector is
\* set and coverage data was loaded; what the hook returns is not used
RuvectorCacheAfterRoute(cache, module, useRuvector, data) ==
    IF useRuvector /\ Len(data) > 0 THEN checkRuvectorAvailable(cache, module) ELSE cache

\* callRuvectorRoute: null unless the probe answers true; then the module is
\* imported again and the hook called, and a failure of either gives null.
\* `hook` is what hooks_coverage_route does: it resolves to an "object", to a
\* "scalar", or "throws"; the result is "null", "object" or "scalar"
callRuvectorRoute(cache, module, hook) ==
    IF checkRuvectorAvailable(cache, module) # "true" THEN "null"
    ELSE IF module # "full" \/ hook = "throws" THEN "null"
    ELSE hook

\* names.join(', ')
RECURSIVE JoinComma(_, _)
JoinComma(names, i) ==
    IF i > Len(names) THEN ""
    ELSE IF i = Len(names) THEN names[i]
    ELSE names[i] \o ", " \o JoinComma(names, i + 1)

IsCriticalOrHigh(g) == g.gapType = "critical" \/ g.gapType = "high"

\* variant: the task keywords are looked at only when no critical or high gap exists
RouteOf_GapWins(taskText, gapList) ==
    LET taskLower == toLowerCase(taskText)
        criticalGaps == SelectSeq(gapList, IsCriticalOrHigh)
        default == [primaryAgent |-> "coder",
                    confidence |-> Rat(75, 100),
                    reason |-> "Default routing based on task analysis",
                    coverageImpact |-> "No coverage data available"]
        byGap == IF Len(criticalGaps) > 0
                 THEN [primaryAgent |->
                          IF Len(criticalGaps[1].suggestedAgents) > 0
                          THEN criticalGaps[1].suggestedAgents[1] ELSE "tester",
                       confidence |-> Rat(85, 100),
                       reason |-> "Critical coverage gap in " \o criticalGaps[1].filePath,
                       coverageImpact |->
                          ToString(Len(criticalGaps)) \o " high-priority files need attention"]
                 ELSE default
    IN  IF Len(gapList) > 0 /\ Len(criticalGaps) = 0
        THEN IF includes(taskLower, "test") \/ includes(taskLower, "coverage")
             THEN [byGap EXCEPT !.primaryAgent = "tester",
                                !.confidence = Rat(9, 10),
                                !.reason = "Task explicitly mentions testing/coverage"]
             ELSE IF includes(taskLower, "security") \/ includes(taskLower, "auth")
             THEN [byGap EXCEPT !.primaryAgent = "security-architect",
                                !.confidence = Rat(88, 100),
                                !.reason = "Security-related task detected"]
             ELSE byGap
        ELSE byGap

\* variant: no override for security tasks
RouteOf_NoSecurityOverride(taskText, gapList) ==
    LET taskLower == toLowerCase(taskText)
        criticalGaps == SelectSeq(gapList, IsCriticalOrHigh)
        default == [primaryAgent |-> "coder",
                    confidence |-> Rat(75, 100),
                    reason |-> "Default routing based on task analysis",
                    coverageImpact |-> "No coverage data available"]
        byGap == IF Len(criticalGaps) > 0
                 THEN [primaryAgent |->
                          IF Len(criticalGaps[1].suggestedAgents) > 0
                          THEN criticalGaps[1].suggestedAgents[1] ELSE "tester",
                       confidence |-> Rat(85, 100),
                       reason |-> "Critical coverage gap in " \o criticalGaps[1].filePath,
                       coverageImpact |->
                          ToString(Len(criticalGaps)) \o " high-priority files need attention"]
                 ELSE default
    IN  IF Len(gapList) > 0
        THEN IF includes(taskLower, "test") \/ includes(taskLower, "coverage")
             THEN [byGap EXCEPT !.primaryAgent = "tester",
                                !.confidence = Rat(9, 10),
                                !.reason = "Task explicitly mentions testing/coverage"]
             ELSE byGap
        ELSE default

\* variant: the last critical or high gap is taken in place of the first
RouteOf_LowestPriorityGap(taskText, gapList) ==
    LET taskLower == toLowerCase(taskText)
        criticalGaps == SelectSeq(gapList, IsCriticalOrHigh)
        default == [primaryAgent |-> "coder",
                    confidence |-> Rat(75, 100),
                    reason |-> "Default routing based on task analysis",
                    coverageImpact |-> "No coverage data available"]
        byGap == IF Len(criticalGaps) > 0
                 THEN [primaryAgent |->
                          IF Len(criticalGaps[1].suggestedAgents) > 0
                          THEN criticalGaps[Len(criticalGaps)].suggestedAgents[1] ELSE "tester",
                       confidence |-> Rat(85, 100),
                       reason |-> "Critical coverage gap in " \o criticalGaps[1].filePath,
                       coverageImpact |->
                          ToString(Len(criticalGaps)) \o " high-priority files need attention"]
                 ELSE default
    IN  IF Len(gapList) > 0
        THEN IF includes(taskLower, "test") \/ includes(taskLower, "coverage")
             THEN [byGap EXCEPT !.primaryAgent = "tester",
                                !.confidence = Rat(9, 10),
                                !.reason = "Task explicitly mentions testing/coverage"]
             ELSE IF includes(taskLower, "security") \/ includes(taskLower, "auth")
             THEN [byGap EXCEPT !.primaryAgent = "security-architect",
                                !.confidence = Rat(88, 100),
                                !.reason = "Security-related task detected"]
             ELSE byGap
        ELSE default

\* variant: the task keywords are looked at whether or not there are gaps
RouteOf_KeywordsAlways(taskText, gapList) ==
    LET taskLower == toLowerCase(taskText)
        criticalGaps == SelectSeq(gapList, IsCriticalOrHigh)
        default == [primaryAgent |-> "coder",
                    confidence |-> Rat(75, 100),
                    reason |-> "Default routing based on task analysis",
                    coverageImpact |-> "No coverage data available"]
        byGap == IF Len(criticalGaps) > 0
                 THEN [primaryAgent |->
                          IF Len(criticalGaps[1].suggestedAgents) > 0
                          THEN criticalGaps[1].suggestedAgents[1] ELSE "tester",
                       confidence |-> Rat(85, 100),
                       reason |-> "Critical coverage gap in " \o criticalGaps[1].filePath,
                       coverageImpact |->
                          ToString(Len(criticalGaps)) \o " high-priority files need attention"]
                 ELSE default
    IN  IF TRUE
        THEN IF includes(taskLower, "test") \/ includes(taskLower, "coverage")
             THEN [byGap EXCEPT !.primaryAgent = "tester",
                                !.confidence = Rat(9, 10),
                                !.reason = "Task explicitly mentions testing/coverage"]
             ELSE IF includes(taskLower, "security") \/ includes(taskLower, "auth")
             THEN [byGap EXCEPT !.primaryAgent = "security-architect",
                                !.confidence = Rat(88, 100),
                                !.reason = "Security-related task detected"]
             ELSE byGap
        ELSE default

\* the routing decision of coverageRoute (lines 800-828)
RouteOf(taskText, gapList) ==
    LET taskLower == toLowerCase(taskText)
        criticalGaps == SelectSeq(gapList, IsCriticalOrHigh)
        default == [primaryAgent |-> "coder",
                    confidence |-> Rat(75, 100),
                    reason |-> "Default routing based on task analysis",
                    coverageImpact |-> "No coverage data available"]
        byGap == IF Len(criticalGaps) > 0
                 THEN [primaryAgent |->
                          IF Len(criticalGaps[1].suggestedAgents) > 0
                          THEN criticalGaps[1].suggestedAgents[1] ELSE "tester",
                       confidence |-> Rat(85, 100),
                       reason |-> "Critical coverage gap in " \o criticalGaps[1].filePath,
                       coverageImpact |->
                          ToString(Len(criticalGaps)) \o " high-priority files need attention"]
                 ELSE default
    IN  IF Len(gapList) > 0
        THEN IF includes(taskLower, "test") \/ includes(taskLower, "coverage")
             THEN [byGap EXCEPT !.primaryAgent = "tester",
                                !.confidence = Rat(9, 10),
                                !.reason = "Task explicitly mentions testing/coverage"]
             ELSE IF includes(taskLower, "security") \/ includes(taskLower, "auth")
             THEN [byGap EXCEPT !.primaryAgent = "security-architect",
                                !.confidence = Rat(88, 100),
                                !.reason = "Security-related task detected"]
             ELSE byGap
        ELSE default

\* the suggestions of coverageRoute (lines 830-844)
SuggestionsOf(format, gapList) ==
    IF format = "none"
    THEN << "Run tests with coverage to enable coverage-aware routing",
            "Supported formats: lcov, istanbul (c8), nyc" >>
    ELSE IF Len(gapList) = 0 THEN << "All files meet coverage threshold" >>
    ELSE << "Focus on " \o JoinComma([i \in 1..Len(Take(gapList, 3)) |->
                                        basename(gapList[i].filePath)], 1) >>
         \o (IF \E i \in 1..Len(gapList) : gapList[i].gapType = "critical"
             THEN << "Critical coverage gaps detected - prioritize testing" >>
             ELSE << >>)

RouteError == [threw |-> TRUE]

\* variant: an object returned by the ruvector hook replaces the routing
coverageRoute_MergeRuvector(taskText, root, fs, thr, useRuvector, rv) ==
    LET report == loadCoverageData(root)
        gapList == IF Len(report.data) > 0
                   THEN analyzeCoverageGaps(report.data, fs, thr) ELSE << >>
        ruvectorResult == IF useRuvector /\ Len(report.data) > 0
                          THEN callRuvectorRoute(rv.cache, rv.module, rv.hook)
                          ELSE "null"
        summary == generateCoverageSummary(report.data, thr)
    IN  IF report.threw THEN RouteError
        ELSE [threw |-> FALSE,
              success |-> TRUE,
              task |-> taskText,
              coverageAware |-> report.format # "none",
              gaps |-> Take(gapList, 10),
              routing |-> IF ruvectorResult = "object"
                          THEN [RouteOf(taskText, gapList) EXCEPT
                                    !.reason = "Routed by ruvector"]
                          ELSE RouteOf(taskText, gapList),
              suggestions |-> SuggestionsOf(report.format, gapList),
              metrics |->
                [filesAnalyzed |-> Len(report.data),
                 totalGaps |-> Len(gapList),
                 criticalGaps |-> Len(SelectSeq(gapList, LAMBDA g : g.gapType = "critical")),
                 avgCoverage |-> summary.overallLineCoverage]]

\* coverageRoute(task, { projectRoot, threshold, useRuvector }); `root` and `fs`
\* are the report files and the source files under projectRoot, `rv` is the
\* cached probe answer, the ruvector module and its hook; the result of the
\* hook is awaited and not used
coverageRoute(taskText, root, fs, thr, useRuvector, rv) ==
    LET report == loadCoverageData(root)
        gapList == IF Len(report.data) > 0
                   THEN analyzeCoverageGaps(report.data, fs, thr) ELSE << >>
        ruvectorResult == IF useRuvector /\ Len(report.data) > 0
                          THEN callRuvectorRoute(rv.cache, rv.module, rv.hook)
                          ELSE "null"
        summary == generateCoverageSummary(report.data, thr)
    IN  IF report.threw THEN RouteError
        ELSE [threw |-> FALSE,
              success |-> TRUE,
              task |-> taskText,
              coverageAware |-> report.format # "none",
              gaps |-> Take(gapList, 10),
              routing |-> RouteOf(taskText, gapList),
              suggestions |-> SuggestionsOf(report.format, gapList),
              metrics |->
                [filesAnalyzed |-> Len(report.data),
                 totalGaps |-> Len(gapList),
                 criticalGaps |-> Len(SelectSeq(gapList, LAMBDA g : g.gapType = "critical")),
                 avgCoverage |-> summary.overallLineCoverage]]

\* variant: a file is listed under every agent suggested for it
GroupByAgent_EveryAgent(gapList) ==
    LET agents == UNION { { gapList[i].suggestedAgents[j] :
                              j \in 1..Len(gapList[i].suggestedAgents) }
                          : i \in 1..Len(gapList) }
    IN  [a \in agents |->
            LET own == SelectSeq(gapList, LAMBDA g : Has(g.suggestedAgents, a))
            IN  [i \in 1..Len(own) |-> own[i].filePath]]

\* agentAssignments: for every primary agent the files of its gaps, in the
\* order of the gaps; primaryAgent = gap.suggestedAgents[0] || 'tester'
GroupByAgent(gapList) ==
    LET primary(g) == IF Len(g.suggestedAgents) > 0 THEN g.suggestedAgents[1]
                      ELSE "tester"
        agents == { primary(gapList[i]) : i \in 1..Len(gapList) }
    IN  [a \in agents |->
            LET own == SelectSeq(gapList, LAMBDA g : primary(g) = a)
            IN  [i \in 1..Len(own) |-> own[i].filePath]]

\* coverageGaps({ projectRoot, threshold, useRuvector, groupByAgent })
coverageGaps(root, fs, thr, groupByAgent, useRuvector, rv) ==
    LET report == loadCoverageData(root)
        gapList == analyzeCoverageGaps(report.data, fs, thr)
    IN  IF report.threw THEN RouteError
        ELSE [threw |-> FALSE,
              success |-> TRUE,
              gaps |-> gapList,
              summary |-> generateCoverageSummary(report.data, thr),
              agentAssignments |->
                 IF groupByAgent THEN GroupByAgent(gapList)
                 ELSE [a \in {} |-> << >>],
              ruvectorAvailable |->
                 useRuvector /\ checkRuvectorAvailable(rv.cache, rv.module) = "true"]

-----------------------------------------------------------------------------
(* commands/route.ts: the action of `route task`                           *)

\* a failed command: exit code 1; `messages` is what printError and
\* spinner.fail have written
CommandFailed(messages) == [success |-> FALSE, exitCode |-> 1, messages |-> messages]

\* agents.find(a => a.id === forceAgent || a.name.toLowerCase() === forceAgent.toLowerCase())
FindAgent(agents, forceAgent) ==
    SelectSeq(agents, LAMBDA a : a.id = forceAgent
                                 \/ toLowerCase(a.name) = toLowerCase(forceAgent))

\* routeTaskCommand.action(ctx): `ctx` holds args[0] as task ("" when absent)
\* and the flags agent ("" when absent), explore and json; `env` is what
\* getRouterModule finds ("absent" when the import fails) and, for a loaded
\* module, its agent types and what routeTask does
routeTaskAction(ctx, env) ==
    IF ctx.task = "" THEN CommandFailed(<< "Task description is required" >>)
    ELSE IF env.router = "absent" THEN CommandFailed(<< "Router module not available" >>)
    ELSE IF ctx.agent # ""
    THEN LET found == FindAgent(env.agents, ctx.agent)
         IN  IF Len(found) = 0
             THEN CommandFailed(<< "Agent \"" \o ctx.agent \o "\" not found" >>)
             ELSE [success |-> TRUE, messages |-> << >>,
                   data |-> [agentId |-> found[1].id, agentName |-> found[1].name]]
    ELSE IF env.routeTask.threw
    THEN CommandFailed(<< "Routing failed", env.routeTask.message >>)
    ELSE [success |-> TRUE, messages |-> << >>, data |-> env.routeTask.value]

-----------------------------------------------------------------------------
(* diff-classifier.ts: git queries, suggestReviewers, analyzeDiff          *)

\* What execSync finds when it runs a git query: the exit status, the lines
\* of the standard output (a line of --numstat or --name-status is the
\* sequence of its tab-separated fields) and the message of the error that
\* execSync throws for a non-zero status.

DigitValue ==
    [c \in Digits |-> CHOOSE n \in 0..9 : SubSeq("0123456789", n + 1, n + 1) = c]

\* parseInt(s, 10) of a decimal count
RECURSIVE ParseInt(_, _)
ParseInt(s, acc) ==
    IF s = "" THEN acc
    ELSE ParseInt(SubSeq(s, 2, Len(s)), 10 * acc + DigitValue[SubSeq(s, 1, 1)])

GitError(prefix, message) == [threw |-> TRUE, error |-> prefix \o ": " \o message]

getGitDiff(repo) ==
    IF repo.diff.status # 0
    THEN GitError("Failed to get git diff", repo.diff.message)
    ELSE [threw |-> FALSE, value |-> repo.diff.stdout]

\* statusMap.get(path) || 'M': the status of the last name-status line for the
\* path; the path of a line of three fields (a rename) is the third field
StatusCodeOf(nameStatus, path) ==
    LET pathOf(parts) == IF Len(parts) = 3 THEN parts[3] ELSE parts[2]
        at == { i \in 1..Len(nameStatus) :
                    Len(nameStatus[i]) >= 2 /\ pathOf(nameStatus[i]) = path }
        last == CHOOSE i \in at : \A j \in at : j <= i
    IN  IF at = {} \/ nameStatus[last][1] = "" THEN "M" ELSE nameStatus[last][1]

\* the DiffFile pushed for one numstat line of at least three fields
NumstatFile(parts, nameStatus) ==
    LET statusCode == StatusCodeOf(nameStatus, parts[3])
        first == SubSeq(statusCode, 1, 1)
    IN  [path |-> parts[3],
         status |-> IF first = "A" THEN "added"
                    ELSE IF first = "D" THEN "deleted"
                    ELSE IF first = "R" THEN "renamed"
                    ELSE "modified",
         additions |-> IF parts[1] = "-" THEN 0 ELSE ParseInt(parts[1], 0),
         deletions |-> IF parts[2] = "-" THEN 0 ELSE ParseInt(parts[2], 0),
         hunks |-> 1,
         binary |-> parts[1] = "-" /\ parts[2] = "-"]

ParseNumstat(numstat, nameStatus) ==
    LET lines == SelectSeq(numstat, LAMBDA parts : Len(parts) >= 3)
    IN  [i \in 1..Len(lines) |-> NumstatFile(lines[i], nameStatus)]

\* variant: without the name-status output every file is taken as modified
getGitDiffNumstat_StatusOptional(repo) ==
    IF repo.numstat.status # 0
    THEN GitError("Failed to get git diff numstat", repo.numstat.message)
    ELSE IF repo.nameStatus.status # 0
    THEN [threw |-> FALSE, value |-> ParseNumstat(repo.numstat.stdout, << >>)]
    ELSE [threw |-> FALSE,
          value |-> ParseNumstat(repo.numstat.stdout, repo.nameStatus.stdout)]

getGitDiffNumstat(repo) ==
    IF repo.numstat.status # 0
    THEN GitError("Failed to get git diff numstat", repo.numstat.message)
    ELSE IF repo.nameStatus.status # 0
    THEN GitError("Failed to get git diff numstat", repo.nameStatus.message)
    ELSE [threw |-> FALSE,
          value |-> ParseNumstat(repo.numstat.stdout, repo.nameStatus.stdout)]

\* in insertion order
REVIEWER_PATTERNS == <<
    [key |-> ".ts", reviewers |-> <<"typescript-expert", "coder">>],
    [key |-> ".tsx", reviewers |-> <<"frontend-expert", "coder", "reviewer">>],
    [key |-> ".py", reviewers |-> <<"python-expert", "coder">>],
    [key |-> ".go", reviewers |-> <<"go-expert", "coder">>],
    [key |-> ".rs", reviewers |-> <<"rust-expert", "coder">>],
    [key |-> ".sql", reviewers |-> <<"database-expert", "architect">>],
    [key |-> ".sh", reviewers |-> <<"devops-expert", "security-expert">>],
    [key |-> ".dockerfile", reviewers |-> <<"devops-expert", "security-expert">>],
    [key |-> ".yaml", reviewers |-> <<"devops-expert", "architect">>],
    [key |-> ".yml", reviewers |-> <<"devops-expert", "architect">>],
    [key |-> ".json", reviewers |-> <<"coder", "architect">>],
    [key |-> "security", reviewers |-> <<"security-expert", "architect">>],
    [key |-> "auth", reviewers |-> <<"security-expert", "architect">>],
    [key |-> "payment", reviewers |-> <<"security-expert", "senior-reviewer">>] >>

\* file.path.match(/\.[a-zA-Z0-9]+$/)?.[0] || ''
ExtensionMatch(path) ==
    LET i == LastIndexOf(path, ".")
        alnum(c) == \/ c \in Digits
                    \/ \E j \in 1..Len(LowerChars) :
                          c = SubSeq(LowerChars, j, j) \/ c = SubSeq(UpperChars, j, j)
    IN  IF i = 0 \/ i = Len(path) THEN ""
        ELSE IF \A j \in (i + 1)..Len(path) : alnum(SubSeq(path, j, j))
        THEN SubSeq(path, i, Len(path)) ELSE ""

\* reviewerScores, a Map: the entries [reviewer, score] in insertion order;
\* reviewerScores.set(reviewer, (reviewerScores.get(reviewer) || 0) + n)
AddScore(scores, reviewer, n) ==
    IF \E i \in 1..Len(scores) : scores[i].reviewer = reviewer
    THEN [i \in 1..Len(scores) |->
             IF scores[i].reviewer = reviewer
             THEN [scores[i] EXCEPT !.score = @ + n] ELSE scores[i]]
    ELSE Append(scores, [reviewer |-> reviewer, score |-> n])

\* (in the loops below the test on Len(next) has the map computed before the
\* next iteration; it is always true)
RECURSIVE AddScores(_, _, _, _)
AddScores(scores, reviewers, n, i) ==
    IF i > Len(reviewers) THEN scores
    ELSE LET next == AddScore(scores, reviewers[i], n)
         IN  IF Len(next) >= 0 THEN AddScores(next, reviewers, n, i + 1) ELSE next

\* the entries of REVIEWER_PATTERNS from the k-th on whose key the path includes
RECURSIVE AddPathPatterns(_, _, _)
AddPathPatterns(scores, pathLower, k) ==
    IF k > Len(REVIEWER_PATTERNS) THEN scores
    ELSE LET next == IF includes(pathLower, REVIEWER_PATTERNS[k].key)
                     THEN AddScores(scores, REVIEWER_PATTERNS[k].reviewers, 2, 1)
                     ELSE scores
         IN  IF Len(next) >= 0 THEN AddPathPatterns(next, pathLower, k + 1) ELSE next

\* the first loop of suggestReviewers, from the i-th file on
RECURSIVE ScoreFiles(_, _, _)
ScoreFiles(scores, fs, i) ==
    IF i > Len(fs) THEN scores
    ELSE LET ext == ExtensionMatch(fs[i].path)
             own == SelectSeq(REVIEWER_PATTERNS, LAMBDA e : e.key = ext)
             extReviewers == IF Len(own) > 0 THEN own[1].reviewers ELSE << >>
             byExt == AddScores(scores, extReviewers, 1, 1)
             next == AddPathPatterns(byExt, toLowerCase(fs[i].path), 1)
         IN  IF Len(next) >= 0 THEN ScoreFiles(next, fs, i + 1) ELSE next

\* the second loop of suggestReviewers, from the i-th high-risk or critical file on
RECURSIVE BoostHighRisk(_, _, _)
BoostHighRisk(scores, highRisk, i) ==
    IF i > Len(highRisk) THEN scores
    ELSE LET senior == AddScore(scores, "senior-reviewer", 3)
             security ==
                 \E j \in 1..Len(highRisk[i].reasons) :
                     includes(toLowerCase(highRisk[i].reasons[j]), "security")
             next == IF security THEN AddScore(senior, "security-expert", 3) ELSE senior
         IN  IF Len(next) >= 0 THEN BoostHighRisk(next, highRisk, i + 1) ELSE next

\* variant: entries of equal score come out in reverse order
SortByScore_TiesReversed(scores) ==
    LET before(i, j) == \/ scores[i].score > scores[j].score
                        \/ scores[i].score = scores[j].score /\ i > j
        rank(i) == 1 + Cardinality({ j \in 1..Len(scores) : before(j, i) })
    IN  [r \in 1..Len(scores) |-> scores[CHOOSE i \in 1..Len(scores) : rank(i) = r]]

\* Array.prototype.sort((a, b) => b[1] - a[1]): descending, stable
SortByScore(scores) ==
    LET before(i, j) == \/ scores[i].score > scores[j].score
                        \/ scores[i].score = scores[j].score /\ i < j
        rank(i) == 1 + Cardinality({ j \in 1..Len(scores) : before(j, i) })
    IN  [r \in 1..Len(scores) |-> scores[CHOOSE i \in 1..Len(scores) : rank(i) = r]]

suggestReviewers(fs, frs) ==
    LET highRisk == SelectSeq(frs, LAMBDA r : r.risk = "high-risk" \/ r.risk = "critical")
        scores == BoostHighRisk(ScoreFiles(<< >>, fs, 1), highRisk, 1)
        top == Take(SortByScore(scores), 5)
    IN  [i \in 1..Len(top) |-> top[i].reviewer]

\* String.prototype.toUpperCase of one character
toUpperChar(c) ==
    IF \E u \in DOMAIN LowerOf : LowerOf[u] = c
    THEN CHOOSE u \in DOMAIN LowerOf : LowerOf[u] = c ELSE c

\* parts.join(' ')
generateSummary(fs, r, c) ==
    toUpperChar(SubSeq(c.category, 1, 1)) \o SubSeq(c.category, 2, Len(c.category))
    \o " change"
    \o (IF c.subcategory # NoSubcategory /\ c.subcategory # ""
        THEN " (" \o c.subcategory \o ")" ELSE "")
    \o " affecting " \o ToString(Len(fs)) \o " file(s)."
    \o " Risk level: " \o r.overall \o " (score: " \o ToString(r.score) \o "/100)."
    \o (IF Len(r.breakdown.securityConcerns) > 0
        THEN " " \o ToString(Len(r.breakdown.securityConcerns))
                 \o " security concern(s) detected." ELSE "")
    \o (IF Len(r.breakdown.breakingChanges) > 0
        THEN " " \o ToString(Len(r.breakdown.breakingChanges))
                 \o " potential breaking change(s)." ELSE "")

\* tryRuVectorAnalysis: `npx ruvector --version`, then hooks_diff_analyze.
\* `version` is "ok", "nonzero" (exit status not 0) or "throws"; `analyze` is
\* "json" (status 0, JSON on stdout), "text" (status 0, no JSON), "nonzero"
\* or "throws"
tryRuVectorAnalysis(version, analyze) ==
    IF version # "ok" THEN [available |-> FALSE]
    ELSE IF analyze = "json" THEN [available |-> TRUE, analysis |-> "parsed"]
    ELSE [available |-> FALSE]

\* tryRuVectorClassify: hooks_diff_classify, outcomes as for hooks_diff_analyze
tryRuVectorClassify(classify) ==
    IF classify = "json" THEN [available |-> TRUE, classification |-> "parsed"]
    ELSE [available |-> FALSE]

\* analyzeDiff({ ref, cwd, useRuVector }) at the time `now`; `rv` holds
\* useRuVector and what the ruvector commands do. The body of the test on
\* ruVectorAnalysis is empty: the answers are not used for the result
analyzeDiff(repo, ref, now, rv) ==
    LET diffContent == getGitDiff(repo)
        numstat == getGitDiffNumstat(repo)
        ruVectorAnalysis == IF rv.useRuVector
                            THEN tryRuVectorAnalysis(rv.version, rv.analyze)
                            ELSE [available |-> FALSE]
        ruVectorClassify == IF rv.useRuVector THEN tryRuVectorClassify(rv.classify)
                            ELSE [available |-> FALSE]
        fs == numstat.value
        frs == [i \in 1..Len(fs) |-> assessFileRisk(fs[i])]
        r == assessOverallRisk(fs, frs)
        c == classifyDiff(fs)
    IN  IF diffContent.threw THEN diffContent
        ELSE IF numstat.threw THEN numstat
        ELSE [threw |-> FALSE,
              ref |-> ref,
              timestamp |-> now,
              files |-> fs,
              risk |-> r,
              classification |-> c,
              fileRisks |-> frs,
              recommendedReviewers |-> suggestReviewers(fs, frs),
              summary |-> generateSummary(fs, r, c)]

-----------------------------------------------------------------------------
(* Inputs of the diff functions                                            *)

Statuses == {"added", "modified", "deleted", "renamed"}

\* additions and deletions: sums fall in each size tier (<= 50, > 50, > 200, > 500)
LineCounts == {0, 30, 50, 150, 400}

DiffFile(path, status, additions, deletions, binary) ==
    [path |-> path, status |-> status, additions |-> additions,
     deletions |-> deletions, hunks |-> 1, binary |-> binary]

DiffFiles ==
    { DiffFile(p, st, a, d, b) :
        p \in Paths, st \in Statuses, a \in LineCounts, d \in LineCounts, b \in BOOLEAN }

\* file lists: every list of at most MaxFiles files of ListFiles; and, so that
\* the list lengths lie on both sides of the file-count steps 5, 10 and 20,
\* every list of at most MaxFiles files of PaddedFiles followed by 4, 9 or 19
\* copies of Filler
MaxFiles == 2

ListPaths == {
    "README.md", "src/auth/login.ts", "src/__tests__/auth.ts", "src/app.test.ts",
    "api/v2/types.ts", "styles/main.css", "package.json", "Dockerfile",
    "src/index.js" }

ListFiles ==
    { DiffFile(p, "added", 150, 0, FALSE) : p \in ListPaths } \cup
    { DiffFile(p, "modified", 30, 50, FALSE) : p \in ListPaths } \cup
    { DiffFile(p, "deleted", 0, 400, TRUE) : p \in ListPaths }

PaddedPaths == {
    "src/auth/login.ts", "src/__tests__/auth.ts", "src/app.test.ts",
    "api/v2/types.ts", "sql/acl/key/hash.env" }

PaddedFiles == { DiffFile(p, "modified", 30, 50, FALSE) : p \in PaddedPaths }

Filler == DiffFile("src/index.js", "modified", 30, 0, FALSE)
PadCounts == {4, 9, 19}

ListsOf(S) == UNION { [1..n -> S] : n \in 0..MaxFiles }

\* the change set of the README.md / login.ts scenario, in both orders
ScenarioLogin == DiffFile("src/auth/login.ts", "modified", 120, 10, FALSE)
ScenarioReadme == DiffFile("README.md", "added", 5, 0, FALSE)
ScenarioLists == { <<ScenarioLogin, ScenarioReadme>>, <<ScenarioReadme, ScenarioLogin>> }

FileLists ==
    ListsOf(ListFiles) \cup ScenarioLists \cup
    { head \o [i \in 1..k |-> Filler] : head \in ListsOf(PaddedFiles), k \in PadCounts }

-----------------------------------------------------------------------------
(* Inputs of the coverage functions                                        *)

MaxRecords == 2

\* a CoverageData record of totalLines lines of which nUncovered are not hit;
\* lineCoverage is the percentage of the lines hit
CoverageData(filePath, branch, function, statement, nUncovered, totalLines, nBranches, nFunctions) ==
    [filePath |-> filePath,
     lineCoverage |-> Rat(100 * (totalLines - nUncovered), totalLines),
     branchCoverage |-> branch,
     functionCoverage |-> function,
     statementCoverage |-> statement,
     uncoveredLines |-> [i \in 1..nUncovered |-> i],
     uncoveredBranches |-> [i \in 1..nBranches |-> [line |-> i, type |-> "branch"]],
     uncoveredFunctions |-> [i \in 1..nFunctions |-> "fn"],
     totalLines |-> totalLines,
     coveredLines |-> totalLines - nUncovered]

\* the measurements of the bounded records; their means are 10, 80 (on the
\* larger threshold), 79.75, 54.17 and 45; the file under /auth/utils/ and
\* the test file have the first and the last of them, the plain file the
\* first, the second and the fourth
CoverageRecords ==
    UNION { { CoverageData(p, RatOfInt(10), RatOfInt(10), RatOfInt(10), 45, 50, 6, 2),
              CoverageData(p, RatOfInt(40), RatOfInt(40), RatOfInt(40), 4, 10, 6, 0) }
            : p \in {"src/auth/utils/session.py", "src/app.test.ts"} } \cup
    { CoverageData("src/a.ts", RatOfInt(10), RatOfInt(10), RatOfInt(10), 45, 50, 6, 2),
      CoverageData("src/a.ts", RatOfInt(80), RatOfInt(80), RatOfInt(80), 2, 10, 0, 0),
      CoverageData("src/a.ts", RatOfInt(100), RatOfInt(50), Rat(100, 3), 2, 3, 0, 1) } \cup
    UNION { { CoverageData(p, RatOfInt(10), RatOfInt(10), RatOfInt(10), 45, 50, 6, 2),
              CoverageData(p, RatOfInt(80), RatOfInt(80), RatOfInt(80), 2, 10, 0, 0),
              CoverageData(p, RatOfInt(80), RatOfInt(80), RatOfInt(80), 21, 100, 2, 0),
              CoverageData(p, RatOfInt(100), RatOfInt(50), Rat(100, 3), 2, 3, 0, 1),
              CoverageData(p, RatOfInt(40), RatOfInt(40), RatOfInt(40), 4, 10, 6, 0) }
            : p \in {"src/services/auth.service.ts", "src/utils/helpers.js",
                     "src/api/routes.ts"} }

CoverageLists == UNION { [1..n -> CoverageRecords] : n \in 0..MaxRecords }

Thresholds == {50, 80}

\* the project root holds none of the files, or holds them with these contents
Missing == FileStat(FALSE, FALSE, 0, 0, 0)
EmptyRoot == [p \in CovPaths |-> Missing]
ProjectRoot ==
    [p \in CovPaths |->
        CASE p = "src/services/auth.service.ts" -> FileStat(TRUE, TRUE, 620, 84, 31)
          [] p = "src/utils/helpers.js" -> FileStat(TRUE, TRUE, 150, 25, 7)
          [] p = "src/api/routes.ts" -> FileStat(TRUE, FALSE, 0, 0, 0)
          [] p = "src/a.ts" -> FileStat(TRUE, TRUE, 40, 3, 2)
          [] OTHER -> Missing]
Disks == {EmptyRoot, ProjectRoot}

-----------------------------------------------------------------------------
(* Inputs of the report parsers                                            *)

\* LCOV records: every metric measured; nothing measured; lines only; a blank
\* record; lines without an SF line; nothing hit
LcovRecords == {
    << LcovLine("SF", "src/a.ts", 0, 0),
       LcovLine("FN", "f", 1, 0),
       LcovLine("DA", "", 1, 3), LcovLine("DA", "", 2, 0),
       LcovLine("BRDA", "-", 2, 0), LcovLine("BRDA", "", 2, 1),
       LcovLine("FNDA", "f", 0, 0), LcovLine("FNDA", "g", 0, 2),
       LcovLine("LF", "", 2, 0), LcovLine("LH", "", 1, 0) >>,
    << LcovLine("SF", "src/utils/helpers.js", 0, 0) >>,
    << LcovLine("SF", "src/api/routes.ts", 0, 0),
       LcovLine("DA", "", 1, 0), LcovLine("DA", "", 2, 0), LcovLine("DA", "", 3, 1),
       LcovLine("LF", "", 3, 0), LcovLine("LH", "", 1, 0) >>,
    << >>,
    << LcovLine("TN", "", 0, 0), LcovLine("DA", "", 1, 1) >>,
    << LcovLine("SF", "src/services/auth.service.ts", 0, 0),
       LcovLine("DA", "", 7, 0), LcovLine("BRDA", "", 7, 0), LcovLine("FNDA", "h", 0, 0),
       LcovLine("LF", "", 1, 0), LcovLine("LH", "", 0, 0) >> }

LcovContents == UNION { [1..n -> LcovRecords] : n \in 0..MaxRecords }

NoMap == [id \in {} |-> 0]

\* an entry whose fileData is an object without properties
EmptyEntry(key) ==
    [key |-> key, isObject |-> TRUE, has |-> {}, path |-> "",
     lines |-> [total |-> 0, covered |-> 0, pct |-> RatOfInt(0), pctIsNumber |-> FALSE],
     statements |-> RatOfInt(0), branches |-> RatOfInt(0), functions |-> RatOfInt(0),
     s |-> << >>, statementMap |-> NoMap,
     b |-> << >>, branchMap |-> NoMap,
     f |-> << >>, fnMap |-> NoMap]

Hit(id, hits) == [id |-> id, hits |-> hits]
BranchHit(id, iterable, hits) == [id |-> id, iterable |-> iterable, hits |-> hits]

DetailedProperties == {"s", "statementMap", "b", "branchMap", "f", "fnMap"}

\* the summary of all files; a summary; a summary of the lines only; a summary
\* whose pct is not a number ("Unknown", nothing measured)
EntryTotal ==
    [EmptyEntry("total") EXCEPT
        !.has = {"lines"},
        !.lines = [total |-> 10, covered |-> 8, pct |-> RatOfInt(80), pctIsNumber |-> TRUE]]
EntrySummary ==
    [EmptyEntry("src/a.ts") EXCEPT
        !.has = {"lines", "statements", "branches", "functions"},
        !.lines = [total |-> 10, covered |-> 8, pct |-> RatOfInt(80), pctIsNumber |-> TRUE],
        !.statements = RatOfInt(75), !.branches = RatOfInt(50), !.functions = RatOfInt(100)]
EntryLinesOnly ==
    [EmptyEntry("src/utils/helpers.js") EXCEPT
        !.has = {"lines"},
        !.lines = [total |-> 4, covered |-> 1, pct |-> RatOfInt(25), pctIsNumber |-> TRUE]]
EntryUnknownPct ==
    [EmptyEntry("src/api/routes.ts") EXCEPT
        !.has = {"lines", "statements", "branches", "functions"}]

\* detailed entries: every metric measured (two uncovered statements on one
\* line); all maps empty; no branch maps; a branch whose hits is not an array
EntryDetailed ==
    [EmptyEntry("/repo/src/a.ts") EXCEPT
        !.has = DetailedProperties \cup {"path"},
        !.path = "src/a.ts",
        !.s = << Hit("0", 1), Hit("1", 0), Hit("2", 0), Hit("3", 0) >>,
        !.statementMap = [id \in {"0", "1", "2", "3"} |-> IF id = "0" THEN 1
                                                         ELSE IF id = "3" THEN 2 ELSE 5],
        !.b = << BranchHit("0", TRUE, << 1, 0 >>) >>,
        !.branchMap = [id \in {"0"} |-> [line |-> 5, type |-> "if"]],
        !.f = << Hit("0", 0), Hit("1", 4) >>,
        !.fnMap = [id \in {"0", "1"} |-> IF id = "0" THEN "f" ELSE "g"]]
EntryNothingMeasured ==
    [EmptyEntry("src/utils/helpers.js") EXCEPT !.has = DetailedProperties]
EntryNoBranchMaps ==
    [EmptyEntry("src/services/auth.service.ts") EXCEPT
        !.has = {"s", "statementMap", "f", "fnMap"},
        !.s = << Hit("0", 1), Hit("1", 1) >>,
        !.statementMap = [id \in {"0", "1"} |-> 3],
        !.f = << Hit("0", 1) >>,
        !.fnMap = [id \in {"0"} |-> "h"]]
EntryBadBranch ==
    [EmptyEntry("src/app.test.ts") EXCEPT
        !.has = DetailedProperties,
        !.s = << Hit("0", 1) >>,
        !.statementMap = [id \in {"0"} |-> 1],
        !.b = << BranchHit("0", FALSE, << >>) >>]
EntryNull == [EmptyEntry("src/a.ts") EXCEPT !.isObject = FALSE]

IstanbulEntries == {
    EntryTotal, EntrySummary, EntryLinesOnly, EntryUnknownPct, EntryDetailed,
    EntryNothingMeasured, EntryNoBranchMaps, EntryBadBranch, EntryNull }

JsonObject(entries) == [kind |-> "object", entries |-> entries]
JsonInvalid == [kind |-> "invalid", entries |-> << >>]
JsonNull == [kind |-> "null", entries |-> << >>]

IstanbulContents ==
    { JsonObject(es) : es \in UNION { [1..n -> IstanbulEntries] : n \in 0..MaxRecords } }
    \cup {JsonInvalid, JsonNull}

-----------------------------------------------------------------------------
(* Inputs of loadCoverageData and coverageRoute                            *)

ReportPaths == { LcovPaths[i] : i \in 1..Len(LcovPaths) }
               \cup { SummaryPaths[i] : i \in 1..Len(SummaryPaths) }

ReportFile(exists, readable, lcov, json) ==
    [exists |-> exists, readable |-> readable, lcov |-> lcov, json |-> json]

\* text that is neither LCOV nor JSON: one record without an SF line
Garbage == << << LcovLine("TN", "", 0, 0) >> >>

Absent == ReportFile(FALSE, FALSE, << >>, JsonInvalid)
Unreadable == ReportFile(TRUE, FALSE, << >>, JsonInvalid)
Malformed == ReportFile(TRUE, TRUE, Garbage, JsonInvalid)
LcovFile(records) == ReportFile(TRUE, TRUE, records, JsonInvalid)
JsonFile(json) == ReportFile(TRUE, TRUE, Garbage, json)

\* LCOV records of the routed projects; the means of the four percentages are
\* 50 (src/a.ts), 100, 66.7, 0 (auth.service.ts), 25 (app.test.ts) and 8.3
\* (session.py)
RecordA == CHOOSE r \in LcovRecords : Len(r) = 10
RecordCovered == << LcovLine("SF", "src/utils/helpers.js", 0, 0) >>
RecordRoutes == CHOOSE r \in LcovRecords : Len(r) = 6 /\ r[1].text = "src/api/routes.ts"
RecordService == CHOOSE r \in LcovRecords : Len(r) = 6 /\ r[1].text # "src/api/routes.ts"
RecordTest ==
    << LcovLine("SF", "src/app.test.ts", 0, 0),
       LcovLine("DA", "", 1, 0), LcovLine("DA", "", 2, 1),
       LcovLine("BRDA", "", 1, 0), LcovLine("FNDA", "t", 0, 0),
       LcovLine("LF", "", 2, 0), LcovLine("LH", "", 1, 0) >>
RecordSession ==
    << LcovLine("SF", "src/auth/utils/session.py", 0, 0),
       LcovLine("DA", "", 1, 0), LcovLine("DA", "", 2, 0), LcovLine("DA", "", 3, 1),
       LcovLine("BRDA", "", 1, 0), LcovLine("FNDA", "s", 0, 0),
       LcovLine("LF", "", 3, 0), LcovLine("LH", "", 1, 0) >>

RouteLcovFiles == {
    LcovFile(<< RecordCovered >>),
    LcovFile(<< RecordA, RecordRoutes >>),
    LcovFile(<< RecordService, RecordTest >>),
    LcovFile(<< RecordTest, RecordA, RecordCovered >>),
    LcovFile(<< RecordA, RecordService >>),
    LcovFile(<< RecordTest, RecordSession, RecordA >>),
    LcovFile(<< >>),
    Malformed, Unreadable }

RouteJsonFiles == {
    JsonFile(JsonObject(<< EntryTotal, EntrySummary, EntryLinesOnly >>)),
    JsonFile(JsonObject(<< EntryDetailed, EntryNull >>)),
    JsonFile(JsonObject(<< EntryUnknownPct >>)),
    Malformed, Unreadable }

NoReports == [q \in ReportPaths |-> Absent]

\* no report; one LCOV report; one JSON report at a c8 or an istanbul
\* location; an LCOV report next to a JSON report; two LCOV reports
Projects ==
    {NoReports}
    \cup { [NoReports EXCEPT !["coverage/lcov.info"] = f] : f \in RouteLcovFiles }
    \cup { [NoReports EXCEPT !["coverage/coverage-final.json"] = f] : f \in RouteJsonFiles }
    \cup { [NoReports EXCEPT ![".nyc_output/coverage-summary.json"] =
                JsonFile(JsonObject(<< EntryTotal, EntrySummary, EntryLinesOnly >>))],
           [NoReports EXCEPT !["lcov.info"] = Malformed,
                             !["coverage/coverage-summary.json"] =
                JsonFile(JsonObject(<< EntrySummary >>))],
           [NoReports EXCEPT !["coverage/lcov.info"] = LcovFile(<< RecordCovered >>),
                             !["coverage/lcov-report/lcov.info"] = LcovFile(<< RecordService >>)] }

Tasks == {
    "write unit tests for the payment module", "fix bug in parser", "improve COVERAGE",
    "harden Auth flow", "security review", "test the auth module" }

RuvectorModules == {"absent", "partial", "full"}
HookOutcomes == {"object", "scalar", "throws"}

\* the command line of `route task`
CommandLines ==
    [task : Tasks \cup {""}, agent : {"", "coder", "Tester", "nobody"},
     explore : BOOLEAN, json : BOOLEAN]

AgentTypes == << [id |-> "coder", name |-> "Coder"], [id |-> "tester", name |-> "Tester"] >>

\* what routerModule.routeTask does: a selection, or an exception
RouteTaskOutcomes ==
    { [threw |-> FALSE, value |-> [agentId |-> a, confidence |-> Rat(c, 10)]]
        : a \in {"coder", "tester"}, c \in {3, 9} }
    \cup { [threw |-> TRUE, message |-> "Q-table could not be read"] }

\* the router module: not loadable, or loaded
RouterModules ==
    { [router |-> "absent"] }
    \cup { [router |-> "loaded", agents |-> AgentTypes, routeTask |-> o]
             : o \in RouteTaskOutcomes }

-----------------------------------------------------------------------------
(* Inputs of the git queries                                               *)

ExecOk(lines) == [status |-> 0, stdout |-> lines, message |-> ""]
ExecFailed(message) == [status |-> 128, stdout |-> << >>, message |-> message]

NotARepository == "fatal: not a git repository"
BadRevision == "fatal: bad revision"

\* lines of `git diff --numstat`: counts, a binary file, a high-risk and a
\* critical file, a line of one field
NumstatLines == {
    <<"120", "10", "src/auth/login.ts">>,
    <<"5", "0", "README.md">>,
    <<"-", "-", "styles/main.css">>,
    <<"0", "400", "src/index.js">>,
    <<"120", "10", "db/payment.sql">>,
    <<"30", "50", "sql/acl/key/hash.env">>,
    <<"7", "2", "api/v2/types.ts">>,
    <<"garbage">> }

\* outputs of `git diff --name-status`
NameStatusOutputs == {
    << >>,
    << <<"M", "src/auth/login.ts">>, <<"A", "README.md">> >>,
    << <<"D", "src/index.js">>, <<"R100", "src/old.ts", "src/auth/login.ts">> >>,
    << <<"A", "styles/main.css">>, <<"M", "styles/main.css">>, <<"D">> >> }

DiffOutputs == { <<"diff --git a/README.md b/README.md">> }

Repositories ==
    [diff : { ExecOk(o) : o \in DiffOutputs } \cup {ExecFailed(BadRevision)},
     numstat : { ExecOk(o) : o \in ListsOf(NumstatLines) }
                   \cup {ExecFailed(NotARepository)},
     nameStatus : { ExecOk(o) : o \in NameStatusOutputs }
                   \cup {ExecFailed(NotARepository)}]

Refs == {"HEAD~1"}
Timestamps == {"2025-01-01T00:00:00.000Z"}

\* the enhancer during analyzeDiff: not requested, not installed, answering
\* with JSON, and installed with commands that fail to run
RuVectorRuns ==
    { [useRuVector |-> FALSE, version |-> "ok", analyze |-> "json", classify |-> "json"],
      [useRuVector |-> TRUE, version |-> "nonzero", analyze |-> "nonzero",
       classify |-> "nonzero"],
      [useRuVector |-> TRUE, version |-> "ok", analyze |-> "json", classify |-> "json"],
      [useRuVector |-> TRUE, version |-> "ok", analyze |-> "throws", classify |-> "text"] }

-----------------------------------------------------------------------------
(* Calls                                                                   *)

NoValue == << >>

\* the calls that may be in progress at once, and the number of probes of one
\* entry point that are followed
MaxCallers == 2
MaxProbes == 3

Callers == 1..MaxCallers

\* the entry points that consult ruvector: coverage-router.ts
\* (checkRuvectorAvailable), ast-analyzer.ts (loadRuvector) and
\* diff-classifier.ts (tryRuVectorAnalysis)
EntryPoints == {"coverage", "ast", "diff"}

\* no call awaits an import, nothing was probed; ruvectorModule of
\* ast-analyzer.ts is null and its ruvectorAvailable false
NoProbe ==
    [awaiting |-> [c \in Callers |-> "none"],
     probes |-> [e \in EntryPoints |-> 0],
     ruvectorModule |-> "null",
     astAvailable |-> FALSE]

Init ==
    /\ pc = "idle"
    /\ file = NoValue
    /\ fileRisk = NoValue
    /\ files = << >>
    /\ fileRisks = << >>
    /\ classification = NoValue
    /\ risk = NoValue
    /\ coverageData = << >>
    /\ threshold = 0
    /\ disk = NoValue
    /\ gaps = << >>
    /\ content = NoValue
    /\ parsed = << >>
    /\ project = NoValue
    /\ task = ""
    /\ loaded = NoValue
    /\ route = NoValue
    /\ ruvectorAvailable = "null"
    /\ options = NoValue
    /\ probe = NoProbe
    /\ git = NoValue
    /\ analysis = NoValue

\* one call assessFileRisk(f)
AssessFileRisk ==
    /\ pc = "idle"
    /\ \E f \in DiffFiles :
        /\ pc' = "assessFileRisk"
        /\ file' = f
        /\ fileRisk' = assessFileRisk(f)
        /\ UNCHANGED <<files, fileRisks, classification, risk,
                       coverageData, threshold, disk, gaps,
                       parseVars, routeVars, gitVars>>

NextFile == AssessFileRisk

\* one call classifyDiff(fs)
ClassifyDiff ==
    /\ pc = "idle"
    /\ \E fs \in FileLists :
        /\ pc' = "classifyDiff"
        /\ files' = fs
        /\ classification' = classifyDiff(fs)
        /\ UNCHANGED <<file, fileRisk, fileRisks, risk, coverageData, threshold, disk, gaps,
                       parseVars, routeVars, gitVars>>

\* fileRisks = files.map(assessFileRisk); risk = assessOverallRisk(files, fileRisks)
AssessOverallRisk ==
    /\ pc = "idle"
    /\ \E fs \in FileLists :
        /\ pc' = "assessOverallRisk"
        /\ files' = fs
        /\ fileRisks' = [i \in 1..Len(fs) |-> assessFileRisk(fs[i])]
        /\ risk' = assessOverallRisk(fs, fileRisks')
        /\ UNCHANGED <<file, fileRisk, classification, coverageData, threshold, disk, gaps,
                       parseVars, routeVars, gitVars>>

NextDiff == ClassifyDiff \/ AssessOverallRisk

\* one call analyzeCoverageGaps(cov, projectRoot, thr)
AnalyzeCoverageGaps ==
    /\ pc = "idle"
    /\ \E cov \in CoverageLists, fs \in Disks, thr \in Thresholds :
        /\ pc' = "analyzeCoverageGaps"
        /\ coverageData' = cov
        /\ disk' = fs
        /\ threshold' = thr
        /\ gaps' = analyzeCoverageGaps(cov, fs, thr)
        /\ UNCHANGED <<file, fileRisk, files, fileRisks, classification, risk,
                       parseVars, routeVars, gitVars>>

NextGaps == AnalyzeCoverageGaps

\* one call parseLcov(lcovContent)
ParseLcov ==
    /\ pc = "idle"
    /\ \E c \in LcovContents :
        /\ pc' = "parseLcov"
        /\ content' = c
        /\ parsed' = parseLcov(c)
        /\ UNCHANGED <<file, fileRisk, files, fileRisks, classification, risk,
                       coverageData, threshold, disk, gaps, routeVars, gitVars>>

\* one call parseIstanbulJson(jsonContent)
ParseIstanbulJson ==
    /\ pc = "idle"
    /\ \E c \in IstanbulContents :
        /\ pc' = "parseIstanbulJson"
        /\ content' = c
        /\ parsed' = parseIstanbulJson(c)
        /\ UNCHANGED <<file, fileRisk, files, fileRisks, classification, risk,
                       coverageData, threshold, disk, gaps, routeVars, gitVars>>

NextParse == ParseLcov \/ ParseIstanbulJson

\* one call loadCoverageData(projectRoot)
LoadCoverageData ==
    /\ pc = "idle"
    /\ \E root \in Projects :
        /\ pc' = "loadCoverageData"
        /\ project' = root
        /\ loaded' = loadCoverageData(root)
        /\ UNCHANGED <<file, fileRisk, files, fileRisks, classification, risk,
                       coverageData, threshold, disk, gaps, parseVars, gitVars,
                       task, route, ruvectorAvailable, options, probe>>

\* one call coverageRoute(task, options); `module` is what import('ruvector')
\* finds during the call
CoverageRoute ==
    /\ pc = "idle"
    /\ \E t \in Tasks, root \in Projects, fs \in Disks, thr \in Thresholds,
          useRuvector \in BOOLEAN, module \in RuvectorModules, hook \in HookOutcomes :
        /\ pc' = "coverageRoute"
        /\ task' = t
        /\ project' = root
        /\ disk' = fs
        /\ threshold' = thr
        /\ loaded' = loadCoverageData(root)
        /\ coverageData' = loaded'.data
        /\ gaps' = IF ~loaded'.threw /\ Len(loaded'.data) > 0
                   THEN analyzeCoverageGaps(loaded'.data, fs, thr) ELSE << >>
        /\ route' = coverageRoute(t, root, fs, thr, useRuvector,
                                  [cache |-> ruvectorAvailable, module |-> module,
                                   hook |-> hook])
        /\ ruvectorAvailable' =
              IF loaded'.threw THEN ruvectorAvailable
              ELSE RuvectorCacheAfterRoute(ruvectorAvailable, module, useRuvector, loaded'.data)
        /\ options' = [useRuvector |-> useRuvector]
        /\ UNCHANGED <<file, fileRisk, files, fileRisks, classification, risk,
                       parseVars, gitVars, probe>>

\* one call coverageGaps(options)
CoverageGaps ==
    /\ pc = "idle"
    /\ \E root \in Projects, fs \in Disks, thr \in Thresholds, groupByAgent \in BOOLEAN,
          useRuvector \in BOOLEAN, module \in RuvectorModules :
        /\ pc' = "coverageGaps"
        /\ project' = root
        /\ disk' = fs
        /\ threshold' = thr
        /\ loaded' = loadCoverageData(root)
        /\ coverageData' = loaded'.data
        /\ gaps' = IF ~loaded'.threw THEN analyzeCoverageGaps(loaded'.data, fs, thr)
                   ELSE << >>
        /\ route' = coverageGaps(root, fs, thr, groupByAgent, useRuvector,
                                 [cache |-> ruvectorAvailable, module |-> module,
                                  hook |-> "object"])
        /\ ruvectorAvailable' =
              IF loaded'.threw \/ ~useRuvector THEN ruvectorAvailable
              ELSE checkRuvectorAvailable(ruvectorAvailable, module)
        /\ options' = [useRuvector |-> useRuvector, groupByAgent |-> groupByAgent]
        /\ UNCHANGED <<file, fileRisk, files, fileRisks, classification, risk,
                       parseVars, gitVars, task, probe>>

\* the call has returned; the module-level cache outlives it
Return ==
    /\ pc \in {"loadCoverageData", "coverageRoute", "coverageGaps"}
    /\ pc' = "idle"
    /\ project' = NoValue /\ task' = "" /\ loaded' = NoValue /\ route' = NoValue
    /\ coverageData' = << >> /\ threshold' = 0 /\ disk' = NoValue /\ gaps' = << >>
    /\ options' = NoValue
    /\ UNCHANGED <<file, fileRisk, files, fileRisks, classification, risk,
                   parseVars, gitVars, ruvectorAvailable, probe>>

NextRoute == LoadCoverageData \/ CoverageRoute \/ CoverageGaps \/ Return


\* one call getGitDiffNumstat(ref, cwd)
GetGitDiffNumstat ==
    /\ pc = "idle"
    /\ \E repo \in Repositories :
        /\ pc' = "getGitDiffNumstat"
        /\ git' = repo
        /\ analysis' = getGitDiffNumstat(repo)
        /\ UNCHANGED <<file, fileRisk, files, fileRisks, classification, risk,
                       coverageData, threshold, disk, gaps, parseVars, routeVars>>

\* one call analyzeDiff({ ref, cwd, useRuVector })
AnalyzeDiff ==
    /\ pc = "idle"
    /\ \E repo \in Repositories, ref \in Refs, now \in Timestamps, rv \in RuVectorRuns :
        /\ pc' = "analyzeDiff"
        /\ git' = repo
        /\ analysis' = analyzeDiff(repo, ref, now, rv)
        /\ UNCHANGED <<file, fileRisk, files, fileRisks, classification, risk,
                       coverageData, threshold, disk, gaps, parseVars, routeVars>>

\* the call has returned or thrown
ReturnGit ==
    /\ pc \in {"getGitDiffNumstat", "analyzeDiff"}
    /\ pc' = "idle"
    /\ git' = NoValue /\ analysis' = NoValue
    /\ UNCHANGED <<file, fileRisk, files, fileRisks, classification, risk,
                   coverageData, threshold, disk, gaps, parseVars, routeVars>>

NextGit == GetGitDiffNumstat \/ AnalyzeDiff \/ ReturnGit

\* coverage-router.ts, checkRuvectorAvailable up to its await: the cached
\* answer is returned if there is one, else import('ruvector') is started
CheckRuvectorAvailable ==
    /\ pc = "idle"
    /\ \E c \in Callers :
        /\ probe.awaiting[c] = "none"
        /\ IF ruvectorAvailable # "null" THEN UNCHANGED probe
           ELSE /\ probe.probes["coverage"] < MaxProbes
                /\ probe' = [probe EXCEPT !.awaiting[c] = "coverage",
                                          !.probes["coverage"] = @ + 1]
        /\ UNCHANGED <<pc, file, fileRisk, files, fileRisks, classification, risk,
                       coverageData, threshold, disk, gaps, parseVars, gitVars,
                       project, task, loaded, route, ruvectorAvailable, options>>

\* checkRuvectorAvailable after its await: the import has settled and the
\* answer is stored in the module-level cache
ImportSettles ==
    /\ pc = "idle"
    /\ \E c \in Callers, module \in RuvectorModules :
        /\ probe.awaiting[c] = "coverage"
        /\ ruvectorAvailable' = IF module = "full" THEN "true" ELSE "false"
        /\ probe' = [probe EXCEPT !.awaiting[c] = "none"]
        /\ UNCHANGED <<pc, file, fileRisk, files, fileRisks, classification, risk,
                       coverageData, threshold, disk, gaps, parseVars, gitVars,
                       project, task, loaded, route, options>>

\* ast-analyzer.ts, loadRuvector up to its await: the cached answer is
\* returned if ruvectorModule is set, else import('ruvector') is started
LoadRuvector ==
    /\ pc = "idle"
    /\ \E c \in Callers :
        /\ probe.awaiting[c] = "none"
        /\ IF probe.ruvectorModule # "null" THEN UNCHANGED probe
           ELSE /\ probe.probes["ast"] < MaxProbes
                /\ probe' = [probe EXCEPT !.awaiting[c] = "ast",
                                          !.probes["ast"] = @ + 1]
        /\ UNCHANGED <<pc, file, fileRisk, files, fileRisks, classification, risk,
                       coverageData, threshold, disk, gaps, parseVars, gitVars,
                       project, task, loaded, route, ruvectorAvailable, options>>

\* loadRuvector after its await: the module, or {} when the import failed
LoadSettles ==
    /\ pc = "idle"
    /\ \E c \in Callers, found \in BOOLEAN :
        /\ probe.awaiting[c] = "ast"
        /\ probe' = [probe EXCEPT !.awaiting[c] = "none",
                                  !.ruvectorModule = IF found THEN "module" ELSE "empty",
                                  !.astAvailable = found]
        /\ UNCHANGED <<pc, file, fileRisk, files, fileRisks, classification, risk,
                       coverageData, threshold, disk, gaps, parseVars, gitVars,
                       project, task, loaded, route, ruvectorAvailable, options>>

\* diff-classifier.ts, tryRuVectorAnalysis: spawnSync runs
\* `npx ruvector --version` to completion on every call; nothing is stored
TryRuVectorAnalysis ==
    /\ pc = "idle"
    /\ \E c \in Callers :
        /\ probe.awaiting[c] = "none"
        /\ probe.probes["diff"] < MaxProbes
        /\ probe' = [probe EXCEPT !.probes["diff"] = @ + 1]
        /\ UNCHANGED <<pc, file, fileRisk, files, fileRisks, classification, risk,
                       coverageData, threshold, disk, gaps, parseVars, gitVars,
                       project, task, loaded, route, ruvectorAvailable, options>>

NextProbe ==
    CheckRuvectorAvailable \/ ImportSettles \/ LoadRuvector \/ LoadSettles
        \/ TryRuVectorAnalysis

\* one run of `claude-flow route task`
RouteTask ==
    /\ pc = "idle"
    /\ \E ctx \in CommandLines, env \in RouterModules :
        /\ pc' = "routeTask"
        /\ task' = ctx.task
        /\ options' = ctx
        /\ loaded' = env
        /\ route' = routeTaskAction(ctx, env)
        /\ UNCHANGED <<file, fileRisk, files, fileRisks, classification, risk,
                       coverageData, threshold, disk, gaps, parseVars, gitVars,
                       project, ruvectorAvailable, probe>>

NextCommand == RouteTask

\* one call of either entry point that may consult ruvector
NextEnhanced == CoverageRoute \/ AnalyzeDiff

SpecFile == Init /\ [][NextFile]_vars
SpecDiff == Init /\ [][NextDiff]_vars
SpecGaps == Init /\ [][NextGaps]_vars
SpecParse == Init /\ [][NextParse]_vars
SpecRoute == Init /\ [][NextRoute]_vars
SpecGit == Init /\ [][NextGit]_vars
SpecEnhanced == Init /\ [][NextEnhanced]_vars
SpecProbe == Init /\ [][NextProbe]_vars
SpecCommand == Init /\ [][NextCommand]_vars

-----------------------------------------------------------------------------
(* Properties of assessFileRisk (SpecFile)                                 *)

RiskRank == [r \in {"low-risk", "medium-risk", "high-risk", "critical"} |->
                CASE r = "low-risk" -> 0 [] r = "medium-risk" -> 1
                  [] r = "high-risk" -> 2 [] r = "critical" -> 3]

\* C1: for every DiffFile the score of assessFileRisk lies in 0..100 and the
\* label is the step function of the score with steps at 25, 50 and 70
\* (low-risk, medium-risk, high-risk, critical), hence non-decreasing in it.
C1_ScoreRangeAndLabel ==
    pc = "assessFileRisk" =>
        /\ fileRisk.score \in 0..100
        /\ fileRisk.risk \in DOMAIN RiskRank
        /\ RiskRank[fileRisk.risk] =
               Cardinality({ t \in {25, 50, 70} : fileRisk.score >= t })

\* a file whose five high-risk matches sum past 100: the clamp acts
C1_Witness ==
    /\ pc = "assessFileRisk"
    /\ file.path = "sql/acl/key/hash.env"
    /\ file.additions + file.deletions > 500
    /\ fileRisk.score = 100
    /\ fileRisk.risk = "critical"

\* the matching entries of a pattern list, in list order
MatchingReasons(patterns, path, suffix) ==
    LET hit == SelectSeq(patterns, LAMBDA e : RegexTest(e.pattern, path))
    IN  [i \in 1..Len(hit) |-> hit[i].reason \o suffix]

C5_ExpectedReasons(f) ==
    LET n == f.additions + f.deletions
    IN  (IF n > 500 THEN << "Large change (" \o ToString(n) \o " lines)" >>
         ELSE IF n > 200 THEN << "Significant change (" \o ToString(n) \o " lines)" >>
         ELSE << >>)
        \o MatchingReasons(HIGH_RISK_PATTERNS, f.path, "")
        \o MatchingReasons(MEDIUM_RISK_PATTERNS, f.path, "")
        \o MatchingReasons(SAFE_PATTERNS, f.path, " (lower risk)")
        \o (IF f.status = "deleted" THEN << "File deletion" >> ELSE << >>)
        \o (IF f.binary THEN << "Binary file" >> ELSE << >>)

C5_ExpectedScore(f) ==
    LET n == f.additions + f.deletions
        tier == IF n > 500 THEN 30 ELSE IF n > 200 THEN 20 ELSE IF n > 50 THEN 10 ELSE 0
        high == Len(MatchingReasons(HIGH_RISK_PATTERNS, f.path, ""))
        medium == Len(MatchingReasons(MEDIUM_RISK_PATTERNS, f.path, ""))
        safe == Len(MatchingReasons(SAFE_PATTERNS, f.path, ""))
        \* subtracting 20 with a floor at 0, `safe` times, after all additions
        floored == Max(0, tier + 25 * high + 15 * medium - 20 * safe)
    IN  Min(100, floored + (IF f.status = "deleted" THEN 15 ELSE 0)
                         + (IF f.binary THEN 10 ELSE 0))

\* C5: the score is the size tier, plus 25 per matching high-risk pattern, plus
\* 15 per matching medium-risk pattern, minus 20 per matching safe pattern with
\* a floor at 0, then plus 15 if deleted and plus 10 if binary, clamped to 100;
\* the reasons are those of the steps in that order, one per match.
C5_CascadeOrder ==
    pc = "assessFileRisk" =>
        /\ fileRisk.score = C5_ExpectedScore(file)
        /\ fileRisk.reasons = C5_ExpectedReasons(file)
        /\ fileRisk.path = file.path

\* a deleted binary file with safe matches that floor the score at 0 before
\* the deletion and binary additions
C5_Witness ==
    /\ pc = "assessFileRisk"
    /\ file.path = "docs/ci/todo.snap"
    /\ file.status = "deleted" /\ file.binary
    /\ file.additions + file.deletions > 200
    /\ fileRisk.score = 25
    /\ Len(fileRisk.reasons) = 7

-----------------------------------------------------------------------------
(* Properties of classifyDiff and assessOverallRisk (SpecDiff)             *)

MaxCounter(categories) ==
    CHOOSE m \in { categories[c] : c \in Categories } :
        \A c \in Categories : categories[c] <= m

\* C2: the category is the counter with the highest value, and among equal
\* highest counters the first in the order feature, bugfix, refactor, test,
\* docs, config, style, infra, security; README.md with src/auth/login.ts is
\* classified docs, in either order of the two files.
C2_TieBreakByEnumerationOrder ==
    pc = "classifyDiff" =>
        LET cs == classification.categories
            first == CHOOSE i \in 1..Len(CategoryOrder) :
                        /\ cs[CategoryOrder[i]] = MaxCounter(cs)
                        /\ \A j \in 1..(i - 1) : cs[CategoryOrder[j]] < MaxCounter(cs)
        IN  /\ classification.category = CategoryOrder[first]
            /\ files \in ScenarioLists => classification.category = "docs"

C2_Witness ==
    /\ pc = "classifyDiff"
    /\ files = <<ScenarioLogin, ScenarioReadme>>
    /\ classification.categories["docs"] = 1
    /\ classification.categories["security"] = 1
    /\ classification.category = "docs"

\* the checks of the classifier in their order, and whether one applies
C3_CheckOrder ==
    << "test", "docs", "style", "config", "infra", "security", "refactor",
       "feature", "bugfix" >>

C3_Applies(c, f) ==
    LET path == toLowerCase(f.path)
        any(lits) == \E k \in lits : includes(path, k)
        ends(lits) == \E k \in lits : endsWith(path, k)
    IN  CASE c = "test" -> any({".test.", ".spec.", "__tests__"})
          [] c = "docs" -> any({"readme", "docs/"}) \/ ends({".md"})
          [] c = "style" -> any({".styl"}) \/ ends({".css", ".scss", ".less"})
          [] c = "config" -> any({"config", ".env", ".yaml", ".yml"}) \/ ends({".json"})
          [] c = "infra" -> any({"docker", "kubernetes", "k8s", "helm", "ci", "cd", "workflow"})
          [] c = "security" -> any({"auth", "security", "permission", "crypto"})
          [] c = "refactor" -> f.deletions > 2 * f.additions
          [] c = "feature" -> f.status = "added"
          [] c = "bugfix" -> TRUE

C3_FirstApplying(f) ==
    LET i == CHOOSE j \in 1..Len(C3_CheckOrder) :
                /\ C3_Applies(C3_CheckOrder[j], f)
                /\ \A k \in 1..(j - 1) : ~C3_Applies(C3_CheckOrder[k], f)
    IN  C3_CheckOrder[i]

\* C3: every file increments exactly the counter of the first check that
\* applies in the order test, docs, style, config, infra, security,
\* deletions > 2 x additions (refactor), added (feature), else bugfix; the
\* counters sum to the number of files.
C3_OneCounterPerFile ==
    pc = "classifyDiff" =>
        /\ \A c \in Categories :
              classification.categories[c] =
                  Cardinality({ i \in 1..Len(files) : C3_FirstApplying(files[i]) = c })
        /\ SumCategories(classification.categories, 1) = Len(files)

\* a test file on an auth path with more deletions than twice the additions:
\* three checks apply and only the first counts
C3_Witness ==
    /\ pc = "classifyDiff"
    /\ Len(files) = 2
    /\ files[1].path = "src/__tests__/auth.ts" /\ files[1].status = "deleted"
    /\ files[2].path = "api/v2/types.ts" /\ files[2].status = "added"
    /\ classification.categories["test"] = 1
    /\ classification.categories["feature"] = 1
    /\ classification.categories["security"] = 0

\* C4: the confidence is min(0.95, winningCount / totalFiles + 0.2) for a
\* non-empty list; the empty list gives feature with 0.5; always in [0,1].
C4_Confidence ==
    pc = "classifyDiff" =>
        LET n == Len(files)
            m == MaxCounter(classification.categories)
            conf == classification.confidence
        IN  /\ conf.den > 0
            /\ 0 <= conf.num /\ conf.num <= conf.den
            /\ n = 0 => classification.category = "feature" /\ 2 * conf.num = conf.den
            /\ n > 0 => conf.num * (100 * n) = conf.den * Min(95 * n, 100 * m + 20 * n)

\* two files of two categories: 1/2 + 0.2 = 0.7
C4_Witness ==
    /\ pc = "classifyDiff"
    /\ Len(files) = 2
    /\ classification.maxCount = 1
    /\ classification.confidence.num * 10 = classification.confidence.den * 7

\* the files a sweep of assessOverallRisk selects
C6_SecuritySweep(f) ==
    \E k \in {"auth", "password", "secret", "token", "key", "credential", "crypto"} :
        includes(toLowerCase(f.path), k)

C6_BreakingSweep(f) ==
    /\ \/ \E k \in {"breaking", "deprecat", "interface", "type"} :
              includes(toLowerCase(f.path), k)
       \/ \E d \in Digits : includes(toLowerCase(f.path), "api/v" \o d)
    /\ f.deletions > f.additions

C6_SecurityHits == Cardinality({ i \in 1..Len(files) : C6_SecuritySweep(files[i]) })
C6_BreakingHits == Cardinality({ i \in 1..Len(files) : C6_BreakingSweep(files[i]) })

\* sum of the per-file scores plus n times the additions to the mean
C6_Unrounded ==
    LET n == Len(fileRisks)
        bonus == IF Len(files) > 20 THEN 15 ELSE IF Len(files) > 10 THEN 10
                 ELSE IF Len(files) > 5 THEN 5 ELSE 0
        extra == bonus + 10 * C6_SecurityHits + 10 * C6_BreakingHits
    IN  [num |-> SumScores(fileRisks, 1) + extra * (IF n > 0 THEN n ELSE 1),
         den |-> IF n > 0 THEN n ELSE 1]

C6_RangeAndLabel ==
    /\ risk.score \in 0..100
    /\ risk.overall \in DOMAIN RiskRank
    /\ RiskRank[risk.overall] = Cardinality({ t \in {25, 50, 70} : risk.score >= t })

\* C6 as stated: the score equals the mean of the per-file scores plus the
\* file-count bonus plus 10 per security-sweep file plus 10 per breaking-sweep
\* file, clamped to at most 100.
C6_ScoreIsExactMean ==
    pc = "assessOverallRisk" =>
        /\ C6_RangeAndLabel
        /\ risk.score * C6_Unrounded.den = Min(100 * C6_Unrounded.den, C6_Unrounded.num)

\* C6 amended: the score is that sum rounded to the nearest integer (halves
\* up) and then clamped to at most 100; it lies in 0..100 and the label has
\* the steps 25, 50, 70.
C6_ScoreIsRoundedMean ==
    pc = "assessOverallRisk" =>
        /\ C6_RangeAndLabel
        /\ LET u == C6_Unrounded
               r == risk.score
           IN  \/ r = 100 /\ 2 * u.num + u.den >= 200 * u.den
               \/ /\ r < 100
                  /\ (2 * r - 1) * u.den <= 2 * u.num
                  /\ 2 * u.num < (2 * r + 1) * u.den

\* a mean that is no integer, with a security-sweep and a breaking-sweep file
C6_Witness ==
    /\ pc = "assessOverallRisk"
    /\ Len(files) = 2
    /\ C6_SecurityHits = 1
    /\ C6_BreakingHits = 1
    /\ SumScores(fileRisks, 1) % 2 = 1
    /\ risk.score < 100

C7_TestPattern(f) ==
    \E k \in {".test.", ".spec.", "__tests__"} : includes(toLowerCase(f.path), k)

C7_NonTestSource(f) ==
    /\ \E e \in {".ts", ".tsx", ".js", ".jsx", ".py", ".go", ".rs"} : endsWith(f.path, e)
    /\ ~C7_TestPattern(f)

\* C7: the tag is unknown exactly when the list holds no non-test source
\* file, else adequate exactly when the test-pattern files are at least half
\* the non-test source files, else insufficient; a file matching the
\* test-file pattern is never counted as a source file.
C7_TestCoverageTag ==
    pc = "assessOverallRisk" =>
        LET nTest == Cardinality({ i \in 1..Len(files) : C7_TestPattern(files[i]) })
            nSource == Cardinality({ i \in 1..Len(files) : C7_NonTestSource(files[i]) })
        IN  risk.breakdown.testCoverage =
                (IF nSource = 0 THEN "unknown"
                 ELSE IF 2 * nTest >= nSource THEN "adequate" ELSE "insufficient")

\* a change set of one file under __tests__ with a source extension is tagged
\* 'adequate': the file is counted as a test file and as a source file
C7_Witness ==
    /\ pc = "assessOverallRisk"
    /\ Len(files) = 1
    /\ files[1].path = "src/__tests__/auth.ts"
    /\ risk.breakdown.testCoverage = "adequate"

-----------------------------------------------------------------------------
(* Properties of analyzeCoverageGaps (SpecGaps)                            *)

\* the sum of the four percentages of a record
C8_Sum(d) ==
    RatAdd(RatAdd(d.lineCoverage, d.branchCoverage),
           RatAdd(d.functionCoverage, d.statementCoverage))

\* sum / 4 < thr
C8_MeanBelow(d, thr) == C8_Sum(d).num < 4 * thr * C8_Sum(d).den

C8_Below == SelectSeq(coverageData, LAMBDA d : C8_MeanBelow(d, threshold))

\* the number of elements of seq for the file filePath
C8_Occurrences(seq, filePath) ==
    Cardinality({ i \in 1..Len(seq) : seq[i].filePath = filePath })

\* C8: analyzeCoverageGaps emits a gap for a record if and only if the mean of
\* its four percentages is strictly below the threshold: the gaps are, one
\* for one, the records whose mean is below the threshold, and no gap has a
\* mean at or above the threshold.
C8_GapIffBelowThreshold ==
    pc = "analyzeCoverageGaps" =>
        LET below == C8_Below
        IN  /\ Len(gaps) = Len(below)
            /\ \A i \in 1..Len(gaps) :
                /\ gaps[i].coveragePercent.num < threshold * gaps[i].coveragePercent.den
                /\ \E k \in 1..Len(below) :
                    /\ gaps[i].filePath = below[k].filePath
                    /\ LET sum == C8_Sum(below[k])
                       IN  RatEq(gaps[i].coveragePercent, Rat(sum.num, 4 * sum.den))
            /\ \A k \in 1..Len(below) :
                C8_Occurrences(gaps, below[k].filePath)
                    = C8_Occurrences(below, below[k].filePath)

\* a record whose mean equals the threshold is dropped next to one that is kept
C8_Witness ==
    /\ pc = "analyzeCoverageGaps"
    /\ Len(coverageData) = 2
    /\ Len(gaps) = 1
    /\ \E i \in 1..2 : C8_Sum(coverageData[i]).num = 4 * threshold * C8_Sum(coverageData[i]).den

\* C9: the list returned by analyzeCoverageGaps is sorted non-increasing by
\* priority: of two adjacent gaps the earlier one's priority is >= the later
\* one's, whatever the order of the coverage records.
C9_SortedNonIncreasing ==
    pc = "analyzeCoverageGaps" =>
        \A i \in 1..(Len(gaps) - 1) : RatLe(gaps[i + 1].priority, gaps[i].priority)

\* two records given in ascending order of priority come back swapped
C9_Witness ==
    /\ pc = "analyzeCoverageGaps"
    /\ Len(coverageData) = 2
    /\ Len(gaps) = 2
    /\ coverageData[1].filePath # coverageData[2].filePath
    /\ gaps[1].filePath = coverageData[2].filePath
    /\ gaps[2].filePath = coverageData[1].filePath
    /\ RatLt(gaps[2].priority, gaps[1].priority)

\* C10 as stated: every gap's priority is strictly greater than the priority
\* of the gap that follows it.
C10_StrictlyDescending ==
    pc = "analyzeCoverageGaps" =>
        \A i \in 1..(Len(gaps) - 1) : RatLt(gaps[i + 1].priority, gaps[i].priority)

\* the files of the elements of seq whose priority equals q, in order
C10_FilesAt(seq, q) ==
    LET at == SelectSeq(seq, LAMBDA g : RatEq(g.priority, q))
    IN  [i \in 1..Len(at) |-> at[i].filePath]

\* C10 amended: the gap list is sorted by descending priority, and gaps of
\* equal priority can occur: they follow one another in the order of their
\* coverage records.  No gap has a smaller priority than a later gap, and
\* for each priority the gaps that have it list the files in record order.
C10_DescendingTiesInRecordOrder ==
    pc = "analyzeCoverageGaps" =>
        LET below == SelectSeq(coverageData, LAMBDA d : BelowThreshold(d, threshold))
            inOrder == [k \in 1..Len(below) |-> GapOf(below[k], disk)]
        IN  /\ \A i, j \in 1..Len(gaps) :
                i < j => ~RatLt(gaps[i].priority, gaps[j].priority)
            /\ \A i \in 1..Len(gaps) :
                C10_FilesAt(gaps, gaps[i].priority) = C10_FilesAt(inOrder, gaps[i].priority)

\* two gaps of equal priority for different files
C10_Witness ==
    /\ pc = "analyzeCoverageGaps"
    /\ Len(gaps) = 2
    /\ RatEq(gaps[1].priority, gaps[2].priority)
    /\ gaps[1].filePath # gaps[2].filePath

\* C11: for every gap produced by analyzeCoverageGaps, suggestedAgents has at
\* most 4 entries and no agent tag occurs twice in it.
C11_AtMostFourDistinctAgents ==
    pc = "analyzeCoverageGaps" =>
        \A i \in 1..Len(gaps) :
            LET agents == gaps[i].suggestedAgents
            IN  /\ Len(agents) <= 4
                /\ \A j, k \in 1..Len(agents) : j # k => agents[j] # agents[k]

\* a critical gap of a file under /api/ with more than 5 uncovered branches:
\* three directory agents, then reviewer, then architect, cut to four
C11_Witness ==
    /\ pc = "analyzeCoverageGaps"
    /\ \E i \in 1..Len(gaps) :
        /\ gaps[i].filePath = "src/api/routes.ts"
        /\ gaps[i].gapType = "critical"
        /\ gaps[i].suggestedAgents = <<"coder", "tester", "security-architect", "reviewer">>
        /\ \E k \in 1..Len(coverageData) :
            /\ coverageData[k].filePath = gaps[i].filePath
            /\ Len(coverageData[k].uncoveredBranches) > 5

\* the stated priority of a gap of the record d, over max(1, totalLines):
\* numerator and denominator
C25_Stated(d, g) ==
    LET den == IF d.totalLines > 1 THEN d.totalLines ELSE 1
        base == CASE g.gapType = "critical" -> 100 [] g.gapType = "high" -> 75
                  [] g.gapType = "medium" -> 50 [] g.gapType = "low" -> 25
        lines == IF 50 * Len(d.uncoveredLines) < 20 * den
                 THEN 50 * Len(d.uncoveredLines) ELSE 20 * den
        branch == IF d.branchCoverage.num < 50 * d.branchCoverage.den THEN 15
                  ELSE IF d.branchCoverage.num < 75 * d.branchCoverage.den THEN 8 ELSE 0
        name == basename(d.filePath)
        bonus == (IF includes(name, "service") \/ includes(name, "controller")
                  THEN 10 ELSE 0)
                 + (IF includes(name, "auth") \/ includes(name, "security") THEN 15 ELSE 0)
        sum == (base + 3 * g.complexity + branch + bonus) * den + lines
    IN  [num |-> IF sum < 200 * den THEN sum ELSE 200 * den, den |-> den]

\* C25: the priority of every gap is base-by-gapType (100, 75, 50, 25)
\* + 3 x complexity + min(20, 50 x uncoveredLines / max(1, totalLines))
\* + branch bonus (15 below 50, else 8 below 75) + file-name bonuses (10 for
\* service/controller, 15 for auth/security in the base name), capped at 200,
\* and lies within [0, 200] for the complexities 1..10.
C25_PriorityFormula ==
    pc = "analyzeCoverageGaps" =>
        \A i \in 1..Len(gaps) :
            /\ gaps[i].complexity \in 1..10
            /\ gaps[i].priority.num >= 0
            /\ gaps[i].priority.num <= 200 * gaps[i].priority.den
            /\ \E k \in 1..Len(coverageData) :
                  /\ coverageData[k].filePath = gaps[i].filePath
                  /\ C8_MeanBelow(coverageData[k], threshold)
                  /\ LET e == C25_Stated(coverageData[k], gaps[i])
                     IN  gaps[i].priority.num * e.den = e.num * gaps[i].priority.den

\* every term at its largest: critical, complexity 10, 45 of 50 lines
\* uncovered, branch coverage 10, auth.service.ts: 100 + 30 + 20 + 15 + 25
C25_Witness ==
    /\ pc = "analyzeCoverageGaps"
    /\ \E i \in 1..Len(gaps) :
        /\ gaps[i].filePath = "src/services/auth.service.ts"
        /\ gaps[i].gapType = "critical"
        /\ gaps[i].complexity = 10
        /\ gaps[i].priority.num = 190 * gaps[i].priority.den
    /\ \E i \in 1..Len(gaps) : gaps[i].gapType = "medium"

\* the file is test-named: its lower-cased base name holds .test. or .spec.
C26_TestNamed(filePath) ==
    \E k \in {".test.", ".spec."} : includes(toLowerCase(basename(filePath)), k)

\* the base list of the first matching rule of the stated order
C26_BaseList(filePath) ==
    CASE includes(filePath, "/api/") \/ includes(filePath, "/routes/") ->
            <<"coder", "tester", "security-architect">>
      [] includes(filePath, "/auth/") \/ includes(filePath, "security") ->
            <<"security-architect", "tester", "coder">>
      [] includes(filePath, "/utils/") \/ includes(filePath, "/helpers/") ->
            <<"coder", "tester">>
      [] includes(filePath, "/services/") -> <<"coder", "tester", "architect">>
      [] OTHER ->
            LET ext == toLowerCase(extname(filePath))
            IN  CASE ext \in {".ts", ".tsx"} -> <<"coder", "tester", "reviewer">>
                  [] ext = ".py" -> <<"coder", "tester", "ml-developer">>
                  [] ext = ".rs" -> <<"coder", "tester", "performance-engineer">>
                  [] OTHER -> <<"coder", "tester">>

\* base list, then reviewer (critical, absent), then architect (more than 5
\* uncovered branches, absent); the first four
C26_Stated(d, g) ==
    LET base == C26_BaseList(d.filePath)
        in(seq, x) == \E i \in 1..Len(seq) : seq[i] = x
        second == IF g.gapType = "critical" /\ ~in(base, "reviewer")
                  THEN base \o <<"reviewer">> ELSE base
        third == IF Len(d.uncoveredBranches) > 5 /\ ~in(second, "architect")
                 THEN second \o <<"architect">> ELSE second
    IN  IF C26_TestNamed(d.filePath) THEN <<"tester", "reviewer">>
        ELSE SubSeq(third, 1, IF Len(third) < 4 THEN Len(third) ELSE 4)

\* the records that can have produced the gap g: same file, mean below the
\* threshold, same mean
C26_RecordsOf(g) ==
    { k \in 1..Len(coverageData) :
        /\ coverageData[k].filePath = g.filePath
        /\ C8_MeanBelow(coverageData[k], threshold)
        /\ RatEq(g.coveragePercent,
                 Rat(C8_Sum(coverageData[k]).num, 4 * C8_Sum(coverageData[k]).den)) }

\* C26: suggestedAgents is exactly [tester, reviewer] for a test-named file;
\* for any other file it is the first 4 tags, in order, of the base list of
\* the first matching rule (api/routes, auth/security, utils/helpers,
\* services, else the extension default), followed by reviewer if the gap is
\* critical and reviewer is absent, followed by architect if more than 5
\* branches are uncovered and architect is absent.
C26_SuggestedAgents ==
    pc = "analyzeCoverageGaps" =>
        \A i \in 1..Len(gaps) :
            LET records == C26_RecordsOf(gaps[i])
            IN  /\ records # {}
                /\ \A k \in records :
                      gaps[i].suggestedAgents = C26_Stated(coverageData[k], gaps[i])

\* a critical gap under /utils/ with more than 5 uncovered branches: both
\* tags are appended, reviewer first; and a gap of a test-named file
C26_Witness ==
    /\ pc = "analyzeCoverageGaps"
    /\ \E i \in 1..Len(gaps) :
        /\ gaps[i].filePath = "src/utils/helpers.js"
        /\ gaps[i].suggestedAgents = <<"coder", "tester", "reviewer", "architect">>
    /\ \E i \in 1..Len(gaps) :
        /\ gaps[i].filePath = "src/app.test.ts"
        /\ gaps[i].suggestedAgents = <<"tester", "reviewer">>

\* the gaps of files that are not test-named, each with a record of more than
\* 5 uncovered branches that can have produced it
C30_ManyBranches ==
    { i \in 1..Len(gaps) :
        /\ ~C26_TestNamed(gaps[i].filePath)
        /\ C26_RecordsOf(gaps[i]) # {}
        /\ \A k \in C26_RecordsOf(gaps[i]) : Len(coverageData[k].uncoveredBranches) > 5 }

C30_HasArchitect(g) == \E j \in 1..Len(g.suggestedAgents) : g.suggestedAgents[j] = "architect"

\* C30 as stated: for every gap of a file that is not test-named and has more
\* than 5 uncovered branches, architect is among the suggested agents.
C30_ArchitectAlways ==
    pc = "analyzeCoverageGaps" => \A i \in C30_ManyBranches : C30_HasArchitect(gaps[i])

\* the list holds four tags before architect is appended
C30_Full(g) ==
    LET base == C26_BaseList(g.filePath)
    IN  /\ g.gapType = "critical"
        /\ Len(base) = 3
        /\ \A j \in 1..3 : base[j] \notin {"reviewer", "architect"}

\* C30 amended: for every gap of a file that is not test-named and has more
\* than 5 uncovered branches, architect is among the suggested agents unless
\* the gap is critical and the base list has three tags without reviewer and
\* architect; then the agents are the base list and reviewer, without architect.
C30_ArchitectUnlessFull ==
    pc = "analyzeCoverageGaps" =>
        \A i \in C30_ManyBranches :
            IF C30_Full(gaps[i])
            THEN /\ ~C30_HasArchitect(gaps[i])
                 /\ gaps[i].suggestedAgents = C26_BaseList(gaps[i].filePath) \o <<"reviewer">>
            ELSE C30_HasArchitect(gaps[i])

\* one gap that loses architect to the cap and one that has it appended
C30_Witness ==
    /\ pc = "analyzeCoverageGaps"
    /\ \E i, j \in C30_ManyBranches :
        /\ C30_Full(gaps[i]) /\ ~C30_HasArchitect(gaps[i])
        /\ ~C30_Full(gaps[j]) /\ gaps[j].suggestedAgents[Len(gaps[j].suggestedAgents)] = "architect"

-----------------------------------------------------------------------------
(* Properties of parseLcov and parseIstanbulJson (SpecParse)               *)

C17_Is(pct, n) == pct.num = n * pct.den

\* the number of lines of an LCOV record with the prefix tag
C17_LcovUnits(lines, tag) == Cardinality({ i \in 1..Len(lines) : lines[i].tag = tag })

C17_LcovRecordsWithFile ==
    SelectSeq(content, LAMBDA r : \E i \in 1..Len(r) : r[i].tag = "SF")

\* the entries of the report that are files
C17_FileEntries == SelectSeq(content.entries, LAMBDA e : e.key # "total")

C17_IsSummary(e) == "lines" \in e.has /\ e.lines.pctIsNumber

\* the numbers of statement, branch and function hit counts a detailed entry lists
C17_Statements(e) == IF "s" \in e.has THEN Len(e.s) ELSE 0
C17_Branches(e) ==
    IF "b" \in e.has
    THEN Cardinality({ <<i, k>> \in (1..Len(e.b)) \X (1..2) : k <= Len(e.b[i].hits) })
    ELSE 0
C17_Functions(e) == IF "f" \in e.has THEN Len(e.f) ELSE 0

\* C17: in both parsers, for every file record and every metric, if the
\* report holds zero measured units for the metric then the metric's
\* percentage is exactly 100.  (For a summary entry the units of a metric are
\* those of its summary block; a block that is absent measures nothing.)
C17_ZeroUnitsIsHundred ==
    /\ pc = "parseLcov" =>
        \A k \in 1..Len(parsed) :
            LET r == C17_LcovRecordsWithFile[k]
            IN  /\ C17_LcovUnits(r, "DA") = 0 =>
                    C17_Is(parsed[k].lineCoverage, 100) /\ C17_Is(parsed[k].statementCoverage, 100)
                /\ C17_LcovUnits(r, "BRDA") = 0 => C17_Is(parsed[k].branchCoverage, 100)
                /\ C17_LcovUnits(r, "FNDA") = 0 => C17_Is(parsed[k].functionCoverage, 100)
    /\ pc = "parseIstanbulJson" =>
        \A k \in 1..Len(parsed) :
            LET e == C17_FileEntries[k]
            IN  IF C17_IsSummary(e)
                THEN /\ "branches" \notin e.has => C17_Is(parsed[k].branchCoverage, 100)
                     /\ "functions" \notin e.has => C17_Is(parsed[k].functionCoverage, 100)
                ELSE /\ C17_Statements(e) = 0 =>
                        C17_Is(parsed[k].statementCoverage, 100) /\ C17_Is(parsed[k].lineCoverage, 100)
                     /\ C17_Branches(e) = 0 => C17_Is(parsed[k].branchCoverage, 100)
                     /\ C17_Functions(e) = 0 => C17_Is(parsed[k].functionCoverage, 100)

\* a detailed entry without b and branchMap gets branch coverage 0
C17_Witness ==
    /\ pc = "parseIstanbulJson"
    /\ Len(parsed) = 1
    /\ content.entries = << EntryNoBranchMaps >>
    /\ C17_Is(parsed[1].branchCoverage, 0)
    /\ C17_Is(parsed[1].statementCoverage, 100)

\* processing the entry raises an exception
C18_Raises(e) ==
    \/ ~e.isObject
    \/ /\ ~C17_IsSummary(e)
       /\ "b" \in e.has /\ "branchMap" \in e.has
       /\ \E i \in 1..Len(e.b) : ~e.b[i].iterable

\* C18: if an exception occurs while parseIstanbulJson processes a report
\* (invalid JSON, or a malformed entry met after well-formed entries), the
\* result is the empty list.
C18_ExceptionYieldsEmptyList ==
    pc = "parseIstanbulJson" =>
        LET raised == \/ content.kind # "object"
                      \/ \E i \in 1..Len(C17_FileEntries) : C18_Raises(C17_FileEntries[i])
        IN  raised => parsed = << >>

\* a null entry after a well-formed one: the record of the first is returned
C18_Witness ==
    /\ pc = "parseIstanbulJson"
    /\ content.kind = "object"
    /\ Len(content.entries) = 2
    /\ ~C18_Raises(content.entries[1]) /\ content.entries[1].key # "total"
    /\ content.entries[2] = EntryNull
    /\ Len(parsed) = 1

-----------------------------------------------------------------------------
(* Properties of loadCoverageData and coverageRoute (SpecRoute)            *)

Routed == pc = "coverageRoute" /\ ~route.threw

C12_TestTerm == \E kw \in {"test", "coverage"} : includes(toLowerCase(task), kw)
C14_SecurityTerm == \E kw \in {"security", "auth"} : includes(toLowerCase(task), kw)

\* the critical and high gaps of the gap list, in list order
C12_CriticalOrHigh == SelectSeq(gaps, LAMBDA g : g.gapType \in {"critical", "high"})

C12_Is(agent, num, den) ==
    /\ route.routing.primaryAgent = agent
    /\ route.routing.confidence.num * den = num * route.routing.confidence.den

\* C12: with a task text containing a test/coverage term and at least one
\* critical or high gap, coverageRoute selects 'tester' with confidence 0.9,
\* whatever agent the highest-priority gap suggests.
C12_TestKeywordBeatsGap ==
    (Routed /\ C12_TestTerm /\ Len(C12_CriticalOrHigh) > 0) => C12_Is("tester", 9, 10)

\* the scenario task with a critical gap whose first suggested agent is coder
C12_Witness ==
    /\ Routed
    /\ task = "write unit tests for the payment module"
    /\ Len(C12_CriticalOrHigh) > 0
    /\ C12_CriticalOrHigh[1].gapType = "critical"
    /\ C12_CriticalOrHigh[1].suggestedAgents[1] = "coder"
    /\ route.routing.primaryAgent = "tester"

\* C13: whenever at least one coverage record was loaded, a task text
\* containing a test/coverage term is routed to 'tester' with confidence 0.9,
\* also when the gap list is empty.
C13_TestKeywordWithCoverageData ==
    (Routed /\ Len(coverageData) > 0 /\ C12_TestTerm) => C12_Is("tester", 9, 10)

\* coverage data without a gap: the test task keeps the default routing
C13_Witness ==
    /\ Routed
    /\ Len(coverageData) > 0 /\ Len(gaps) = 0
    /\ C12_TestTerm
    /\ C12_Is("coder", 75, 100)
    /\ route.routing.coverageImpact = "No coverage data available"

\* C14 as stated: every task text containing a security/auth term, with at
\* least one gap, is routed to 'security-architect' with confidence 0.88.
C14_SecurityKeyword ==
    (Routed /\ C14_SecurityTerm /\ Len(gaps) > 0) => C12_Is("security-architect", 88, 100)

\* C14 amended: a task text containing a security/auth term and no
\* test/coverage term, with at least one gap, is routed to
\* 'security-architect' with confidence 0.88; a text that also contains a
\* test/coverage term is routed to 'tester' with confidence 0.9.
C14_SecurityKeywordUnlessTest ==
    (Routed /\ C14_SecurityTerm /\ Len(gaps) > 0) =>
        IF C12_TestTerm THEN C12_Is("tester", 9, 10)
        ELSE C12_Is("security-architect", 88, 100)

\* a security task with gaps of which none is critical or high
C14_Witness ==
    /\ Routed
    /\ C14_SecurityTerm /\ ~C12_TestTerm
    /\ Len(gaps) > 0 /\ Len(C12_CriticalOrHigh) = 0
    /\ route.routing.primaryAgent = "security-architect"

\* C15: with a critical or high gap and none of the keywords in the task, the
\* primary agent is the first suggested agent of the highest-priority
\* critical/high gap, with confidence 0.85; with no critical or high gap and
\* no keyword, it is 'coder' with confidence 0.75.
C15_GapDerivedAgent ==
    (Routed /\ ~C12_TestTerm /\ ~C14_SecurityTerm) =>
        IF Len(C12_CriticalOrHigh) > 0
        THEN \E i \in 1..Len(C12_CriticalOrHigh) :
                /\ \A j \in 1..Len(C12_CriticalOrHigh) :
                      /\ RatLe(C12_CriticalOrHigh[j].priority, C12_CriticalOrHigh[i].priority)
                      /\ j < i => RatLt(C12_CriticalOrHigh[j].priority,
                                        C12_CriticalOrHigh[i].priority)
                /\ C12_Is(C12_CriticalOrHigh[i].suggestedAgents[1], 85, 100)
        ELSE C12_Is("coder", 75, 100)

\* two critical/high gaps whose first agents differ, and a task without keyword
C15_Witness ==
    /\ Routed
    /\ task = "fix bug in parser"
    /\ Len(C12_CriticalOrHigh) = 2
    /\ C12_CriticalOrHigh[1].suggestedAgents[1] # C12_CriticalOrHigh[2].suggestedAgents[1]
    /\ C12_Is(C12_CriticalOrHigh[1].suggestedAgents[1], 85, 100)

C16_NoReportFound == \A q \in DOMAIN project : ~project[q].exists

\* C16: when no report is found, coverageRoute succeeds with the default
\* routing ('coder', 0.75, the default reason, the note 'No coverage data
\* available') for every task text, an empty gap list and coverageAware false.
C16_DefaultWithoutCoverage ==
    (pc = "coverageRoute" /\ C16_NoReportFound) =>
        /\ ~route.threw
        /\ route.success
        /\ C12_Is("coder", 75, 100)
        /\ route.routing.reason = "Default routing based on task analysis"
        /\ route.routing.coverageImpact = "No coverage data available"
        /\ route.gaps = << >>
        /\ route.coverageAware = FALSE

\* no report and a task with a test keyword
C16_Witness ==
    /\ pc = "coverageRoute"
    /\ C16_NoReportFound
    /\ C12_TestTerm
    /\ route.routing.primaryAgent = "coder"

\* the report that is loaded is missing, or its text is not a report
C19_MissingOrMalformed ==
    \A q \in DOMAIN project : project[q] \in {Absent, Malformed}

\* C19: a missing or malformed report is not fatal: loadCoverageData and
\* coverageRoute do not throw, the coverage set is empty, and the result
\* carries the no-report marker (format 'none', reportPath null,
\* coverageAware false), in the missing and in the malformed case.
C19_NoReportMarker ==
    (pc \in {"loadCoverageData", "coverageRoute"} /\ C19_MissingOrMalformed) =>
        /\ ~loaded.threw
        /\ loaded.data = << >>
        /\ loaded.format = "none"
        /\ loaded.reportPath = "null"
        /\ pc = "coverageRoute" => ~route.threw /\ route.coverageAware = FALSE

\* a malformed LCOV report: empty coverage set, but format 'lcov' and coverageAware
C19_Witness ==
    /\ pc = "coverageRoute"
    /\ project["coverage/lcov.info"] = Malformed
    /\ loaded.data = << >>
    /\ loaded.format = "lcov"
    /\ ~route.threw /\ route.coverageAware


\* the call coverageGaps has returned its result
Listed == pc = "coverageGaps" /\ ~route.threw

\* C28: in the result of coverageGaps, summary.filesBelowThreshold is the
\* number of gaps returned and summary.totalFiles the number of coverage
\* records; with zero records totalFiles, the four overall percentages and
\* filesBelowThreshold are 0 and the gap list is empty.
C28_SummaryMatchesGaps ==
    Listed =>
        /\ route.summary.filesBelowThreshold = Len(route.gaps)
        /\ route.summary.totalFiles = Len(coverageData)
        /\ Len(coverageData) = 0 =>
              /\ route.summary.totalFiles = 0
              /\ route.summary.filesBelowThreshold = 0
              /\ route.summary.overallLineCoverage.num = 0
              /\ route.summary.overallBranchCoverage.num = 0
              /\ route.summary.overallFunctionCoverage.num = 0
              /\ route.summary.overallStatementCoverage.num = 0
              /\ route.gaps = << >>

\* three records of which one has its mean on the threshold and is no gap
C28_Witness ==
    /\ Listed
    /\ Len(coverageData) = 3
    /\ route.summary.filesBelowThreshold = 2
    /\ \E k \in 1..3 :
          C8_Sum(coverageData[k]).num = 4 * threshold * C8_Sum(coverageData[k]).den

\* the number of files listed in agentAssignments
RECURSIVE C29_Listed(_, _)
C29_Listed(assignments, agents) ==
    IF agents = {} THEN 0
    ELSE LET a == CHOOSE x \in agents : TRUE
         IN  Len(assignments[a]) + C29_Listed(assignments, agents \ {a})

C29_In(seq, x) == \E i \in 1..Len(seq) : seq[i] = x

\* C29: every gap has a non-empty suggestedAgents list that starts with
\* tester, coder or security-architect, so the 'tester' fallback of
\* coverageRoute and coverageGaps is not taken: the gap-derived agent of
\* coverageRoute is the first agent of the first critical or high gap, and
\* with grouping enabled every gap's file is listed in agentAssignments under
\* its first suggested agent and under no other, the group sizes adding up to
\* the number of gaps.
C29_FirstAgentAlwaysPresent ==
    (pc \in {"coverageRoute", "coverageGaps"} /\ ~route.threw) =>
        /\ \A i \in 1..Len(gaps) :
              /\ Len(gaps[i].suggestedAgents) > 0
              /\ gaps[i].suggestedAgents[1] \in {"tester", "coder", "security-architect"}
        /\ (pc = "coverageRoute" /\ route.routing.confidence.num * 100
                                    = 85 * route.routing.confidence.den) =>
              /\ Len(C12_CriticalOrHigh) > 0
              /\ route.routing.primaryAgent = C12_CriticalOrHigh[1].suggestedAgents[1]
        /\ (pc = "coverageGaps" /\ options.groupByAgent) =>
              LET assignments == route.agentAssignments
              IN  /\ \A i \in 1..Len(gaps) :
                        \A a \in DOMAIN assignments :
                            C29_In(assignments[a], gaps[i].filePath)
                                <=> a = gaps[i].suggestedAgents[1]
                  /\ \A i \in 1..Len(gaps) :
                        gaps[i].suggestedAgents[1] \in DOMAIN assignments
                  /\ C29_Listed(assignments, DOMAIN assignments) = Len(gaps)
        /\ (pc = "coverageGaps" /\ ~options.groupByAgent) =>
              DOMAIN route.agentAssignments = {}

\* grouping enabled, three gaps whose first agents are the three possible ones
C29_Witness ==
    /\ Listed
    /\ options.groupByAgent
    /\ Len(gaps) = 3
    /\ DOMAIN route.agentAssignments = {"tester", "coder", "security-architect"}

-----------------------------------------------------------------------------
(* Properties of getGitDiffNumstat and analyzeDiff (SpecGit)               *)

\* the queries that the call runs
C20_Queries ==
    IF pc = "analyzeDiff" THEN {"diff", "numstat", "nameStatus"}
    ELSE {"numstat", "nameStatus"}

C20_QueryFailed == \E q \in C20_Queries : git[q].status # 0

\* C20: if any of the git queries that getGitDiffNumstat or analyzeDiff runs
\* fails, the call fails with an error and returns nothing: the outcome has no
\* file list and no risk, classification or reviewers, whichever query failed.
C20_FailedQueryIsFatal ==
    (pc \in {"getGitDiffNumstat", "analyzeDiff"} /\ C20_QueryFailed) =>
        /\ analysis.threw
        /\ DOMAIN analysis = {"threw", "error"}
        /\ \E prefix \in {"Failed to get git diff: ", "Failed to get git diff numstat: "} :
              SubSeq(analysis.error, 1, Len(prefix)) = prefix

\* only the name-status query fails, after a numstat output with files
C20_Witness ==
    /\ pc = "analyzeDiff"
    /\ git.diff.status = 0 /\ git.numstat.status = 0 /\ git.nameStatus.status # 0
    /\ Len(git.numstat.stdout) = 2
    /\ analysis.threw
    /\ analysis.error = "Failed to get git diff numstat: fatal: not a git repository"

Analyzed == pc = "analyzeDiff" /\ ~analysis.threw

\* reviewerScores at the end of the two loops of suggestReviewers
C21_Scores ==
    BoostHighRisk(ScoreFiles(<< >>, analysis.files, 1),
                  SelectSeq(analysis.fileRisks,
                            LAMBDA r : r.risk \in {"high-risk", "critical"}), 1)

\* position of a reviewer in a score map: the order of first scoring
C21_IndexOf(scores, reviewer) ==
    CHOOSE i \in 1..Len(scores) : scores[i].reviewer = reviewer

\* C21: suggestReviewers returns at most 5 reviewer tags, without duplicates,
\* in order of non-increasing accumulated score; tags of equal score are in
\* the order in which they were first given a score.
C21_TopFiveStable ==
    Analyzed =>
        LET out == analysis.recommendedReviewers
            scores == C21_Scores
            named == { scores[k].reviewer : k \in 1..Len(scores) }
            at == [r \in named |-> C21_IndexOf(scores, r)]
        IN  /\ Len(out) <= 5
            /\ \A i, j \in 1..Len(out) : i # j => out[i] # out[j]
            /\ \A i \in 1..Len(out) : out[i] \in named
            /\ \A i \in 1..(Len(out) - 1) :
                  \/ scores[at[out[i]]].score > scores[at[out[i + 1]]].score
                  \/ /\ scores[at[out[i]]].score = scores[at[out[i + 1]]].score
                     /\ at[out[i]] < at[out[i + 1]]

\* six tags with a score, two of them with the same score among the five returned
C21_Witness ==
    /\ Analyzed
    /\ Len(analysis.recommendedReviewers) = 5
    /\ LET scores == C21_Scores
           out == analysis.recommendedReviewers
       IN  /\ Len(scores) > 5
           /\ \E i \in 1..4 :
                 scores[C21_IndexOf(scores, out[i])].score =
                 scores[C21_IndexOf(scores, out[i + 1])].score

\* the reviewers of the entry of REVIEWER_PATTERNS with the given key
C27_Entry(key) ==
    LET own == SelectSeq(REVIEWER_PATTERNS, LAMBDA e : e.key = key)
    IN  IF Len(own) > 0 THEN { own[1].reviewers[i] : i \in 1..Len(own[1].reviewers) }
        ELSE {}

C27_DomainKeywords == {"security", "auth", "payment"}

C27_Tags == UNION { C27_Entry(REVIEWER_PATTERNS[k].key) : k \in 1..Len(REVIEWER_PATTERNS) }

\* the stated score of a tag: 1 per file through the extension, 2 per file and
\* domain keyword in the lower-cased path, 3 to senior-reviewer per high-risk
\* or critical file, 3 to security-expert per such file with a security reason
C27_Stated(tag, fs, frs) ==
    LET byExt == { i \in 1..Len(fs) : tag \in C27_Entry(ExtensionMatch(fs[i].path)) }
        byKeyword == { <<i, kw>> \in (1..Len(fs)) \X C27_DomainKeywords :
                          /\ includes(toLowerCase(fs[i].path), kw)
                          /\ tag \in C27_Entry(kw) }
        risky == { i \in 1..Len(frs) : frs[i].risk \in {"high-risk", "critical"} }
        secure == { i \in risky :
                      \E j \in 1..Len(frs[i].reasons) :
                          includes(toLowerCase(frs[i].reasons[j]), "security") }
    IN  Cardinality(byExt) + 2 * Cardinality(byKeyword)
        + (IF tag = "senior-reviewer" THEN 3 * Cardinality(risky) ELSE 0)
        + (IF tag = "security-expert" THEN 3 * Cardinality(secure) ELSE 0)

\* C27: the score that suggestReviewers accumulates for every reviewer tag is
\* 1 per file for each tag of the entry of the file's extension, 2 per file
\* for each tag of the entry of every domain keyword (security, auth, payment)
\* in the lower-cased path, 3 to senior-reviewer per high-risk or critical
\* file and 3 more to security-expert per such file whose reasons mention
\* security; a tag without such a contribution has no score.
C27_ExactScores ==
    Analyzed =>
        LET scores == C21_Scores
            scored == { scores[k].reviewer : k \in 1..Len(scores) }
        IN  /\ \A k \in 1..Len(scores) :
                  scores[k].score =
                      C27_Stated(scores[k].reviewer, analysis.files, analysis.fileRisks)
            /\ \A tag \in C27_Tags \ scored :
                  C27_Stated(tag, analysis.files, analysis.fileRisks) = 0

\* one file that matches the table through its extension only: its tags get 3
C27_Witness ==
    /\ Analyzed
    /\ Len(analysis.files) = 1
    /\ analysis.files[1].path = "api/v2/types.ts"
    /\ C21_Scores = << [reviewer |-> "typescript-expert", score |-> 3],
                       [reviewer |-> "coder", score |-> 3] >>

-----------------------------------------------------------------------------
(* Properties of the optional enhancer (SpecEnhanced)                      *)

\* the enhancer during coverageRoute: not requested, known to be missing,
\* not installed, installed without the hooks, and installed with a hook that
\* answers with an object, answers with a scalar, or throws
C24_RouteRuns ==
    { [useRuvector |-> FALSE, cache |-> "null", module |-> "full", hook |-> "object"],
      [useRuvector |-> TRUE, cache |-> "false", module |-> "full", hook |-> "object"],
      [useRuvector |-> TRUE, cache |-> "null", module |-> "absent", hook |-> "throws"],
      [useRuvector |-> TRUE, cache |-> "null", module |-> "partial", hook |-> "throws"],
      [useRuvector |-> TRUE, cache |-> "null", module |-> "full", hook |-> "object"],
      [useRuvector |-> TRUE, cache |-> "true", module |-> "full", hook |-> "scalar"],
      [useRuvector |-> TRUE, cache |-> "true", module |-> "full", hook |-> "throws"] }

\* the decision fields of the two results
C24_DiffFields == {"files", "risk", "classification", "fileRisks",
                   "recommendedReviewers", "summary"}
C24_RouteFields == {"gaps", "routing", "suggestions", "metrics"}

-----------------------------------------------------------------------------
(* Properties of the availability probes (SpecProbe)                       *)

\* C22: ruvector is probed at most once per process by each entry point (diff
\* analysis, coverage routing, AST analysis), whatever the sequence of calls,
\* overlapping calls included; later calls get the cached answer.
C22_ProbedAtMostOnce ==
    \A e \in EntryPoints : probe.probes[e] <= 1

\* calls that follow one another, none starting while an import is awaited
C22_CachedBetweenCalls ==
    [][(\A c \in Callers : probe.awaiting[c] = "none")
          => /\ (ruvectorAvailable # "null"
                    => probe'.probes["coverage"] = probe.probes["coverage"])
             /\ (probe.ruvectorModule # "null"
                    => probe'.probes["ast"] = probe.probes["ast"])]_vars

\* two routing calls overlap: the second starts its import while the first
\* still awaits its own
C22_Witness ==
    /\ probe.awaiting[1] = "coverage"
    /\ probe.awaiting[2] = "coverage"
    /\ probe.probes["coverage"] = 2

-----------------------------------------------------------------------------
(* Properties of `route task` (SpecCommand)                                *)

\* a task was given and the router module could not be loaded
C23_RouterAbsent == pc = "routeTask" /\ task # "" /\ loaded.router = "absent"

\* C23: when the learned router cannot be loaded, routing a task still
\* completes successfully: no error message and no failure exit code.
C23_AbsentRouterIsSilent ==
    C23_RouterAbsent =>
        /\ route.success
        /\ route.messages = << >>
        /\ "exitCode" \notin DOMAIN route

\* a task to route, no agent forced, no router module
C23_Witness ==
    /\ C23_RouterAbsent
    /\ options.agent = ""
    /\ route = CommandFailed(<< "Router module not available" >>)

=============================================================================
